---- MODULE Spec2Model ----
(***************************************************************************)
(* gitdive: commit extraction (core/processor.py), structural diff parsing *)
(* (core/diff_parser.py) and document building (core/builder.py).          *)
(*                                                                         *)
(* A Python str is modelled by the sequence of its lines (what             *)
(* str.split('\n') returns, so never the empty sequence), each line being  *)
(* the sequence of its characters (one-character strings).                 *)
(***************************************************************************)
EXTENDS Integers, Sequences, FiniteSets, TLC

\* ------------------------------------------------------------------------
\* Strings
\* ------------------------------------------------------------------------

\* Python's None; no character sequence equals it
None == <<"None">>

\* the str "" : one line with no character
EmptyStr == << <<>> >>

\* truthiness of an optional str used as a condition (None and '' are falsy)
Truthy(s) == s # None /\ s # <<>>

\* the character at position i (1-based), "" past either end
At(s, i) == IF i \in 1..Len(s) THEN s[i] ELSE ""

\* characters matched by \s and by \w
IsSpace(c) == c \in {" ", "\t"}

WordChars ==
    {"a", "b", "c", "d", "e", "f", "g", "h", "i", "j", "k", "l", "m", "n",
     "o", "p", "q", "r", "s", "t", "u", "v", "w", "x", "y", "z",
     "A", "B", "C", "D", "E", "F", "G", "H", "I", "J", "K", "L", "M", "N",
     "O", "P", "Q", "R", "S", "T", "U", "V", "W", "X", "Y", "Z",
     "0", "1", "2", "3", "4", "5", "6", "7", "8", "9", "_"}

IsWord(c) == c \in WordChars

\* [^)] : any character but ')'
NotClose(c) == c # "" /\ c # ")"

\* str.startswith
StartsWith(s, prefix) ==
    Len(s) >= Len(prefix) /\ SubSeq(s, 1, Len(prefix)) = prefix

\* str.endswith
EndsWith(s, suffix) ==
    Len(s) >= Len(suffix) /\ SubSeq(s, Len(s) - Len(suffix) + 1, Len(s)) = suffix

\* the positions at which sub occurs in s
Occurrences(s, sub) ==
    {i \in 1..(Len(s) - Len(sub) + 1) : SubSeq(s, i, i + Len(sub) - 1) = sub}

\* Python's `sub in s`
Contains(s, sub) == Len(sub) = 0 \/ Occurrences(s, sub) # {}

\* the least element of a non-empty set of integers
Min(S) == CHOOSE x \in S : \A y \in S : x <= y

\* str.replace(old, '', 1): the first occurrence of old removed
RemoveFirst(s, old) ==
    IF Occurrences(s, old) = {} THEN s
    ELSE LET i == Min(Occurrences(s, old))
         IN  SubSeq(s, 1, i - 1) \o SubSeq(s, i + Len(old), Len(s))

\* str.split(' '): the fields between single spaces, empty fields kept
RECURSIVE SplitOn(_, _, _, _)
SplitOn(s, i, cur, acc) ==
    IF i > Len(s) THEN Append(acc, cur)
    ELSE IF s[i] = " " THEN SplitOn(s, i + 1, <<>>, Append(acc, cur))
    ELSE SplitOn(s, i + 1, Append(cur, s[i]), acc)

SplitSpace(s) == SplitOn(s, 1, <<>>, <<>>)

\* str.split(): the maximal runs of non-whitespace characters
RECURSIVE SplitRuns(_, _, _, _)
SplitRuns(s, i, cur, acc) ==
    IF i > Len(s) THEN (IF cur = <<>> THEN acc ELSE Append(acc, cur))
    ELSE IF IsSpace(s[i])
         THEN SplitRuns(s, i + 1, <<>>, IF cur = <<>> THEN acc ELSE Append(acc, cur))
    ELSE SplitRuns(s, i + 1, Append(cur, s[i]), acc)

SplitWhitespace(s) == SplitRuns(s, 1, <<>>, <<>>)

\* a test that takes the empty str alone for blank (not diff_content)
OnlyEmpty(text) == text = EmptyStr

\* a test of blankness that rejects nothing (content.strip() always truthy)
NeverBlank(text) == FALSE

\* a str is blank when str.strip() is empty: every line is whitespace only
IsBlank(text) ==
    \A i \in 1..Len(text) : \A k \in 1..Len(text[i]) : IsSpace(text[i][k])

\* '\n'.join(list of lines): the joined str, "" for the empty list
JoinLines(lines) == IF lines = <<>> THEN EmptyStr ELSE lines

\* ------------------------------------------------------------------------
\* Regular expressions (re.match, anchored at the start of the line).
\* A position is an index into the line; 0 is "no match".  In every pattern
\* below a repetition is followed by a character outside its class, so the
\* greedy match is the only one and backtracking cannot find another.
\* ------------------------------------------------------------------------

\* the first position at or after i whose character does not satisfy P
SkipWhile(s, i, P(_)) ==
    CHOOSE j \in i..(Len(s) + 1) :
        /\ ~P(At(s, j))
        /\ \A k \in i..(j - 1) : P(s[k])

\* X* and X+ for a character class, and a literal
Star(s, i, P(_)) == IF i = 0 THEN 0 ELSE SkipWhile(s, i, P)

Plus(s, i, P(_)) == IF i = 0 \/ ~P(At(s, i)) THEN 0 ELSE SkipWhile(s, i, P)

Lit(s, i, lit) ==
    IF i = 0 \/ i + Len(lit) - 1 > Len(s) THEN 0
    ELSE IF SubSeq(s, i, i + Len(lit) - 1) = lit THEN i + Len(lit) ELSE 0

\* ^[+-]\s*
SignAndSpaces(s) == IF At(s, 1) \in {"+", "-"} THEN Star(s, 2, IsSpace) ELSE 0

\* the result of a failed match; a captured (\w+) is never empty
NoMatch == <<>>

\* ^[+-]\s*<keyword>\s+(\w+)\s*\(      (def, function)
KeywordFunction(s, keyword) ==
    LET a == Plus(s, Lit(s, SignAndSpaces(s), keyword), IsSpace)
        b == Plus(s, a, IsWord)
        c == Lit(s, Star(s, b, IsSpace), <<"(">>)
    IN  IF c # 0 THEN SubSeq(s, a, b - 1) ELSE NoMatch

\* ^[+-]\s*(\w+)\s*\([^)]*\)\s*{
CStyleFunction(s) ==
    LET a == SignAndSpaces(s)
        b == Plus(s, a, IsWord)
        c == Lit(s, Star(s, b, IsSpace), <<"(">>)
        d == Lit(s, Star(s, c, NotClose), <<")">>)
        e == Lit(s, Star(s, d, IsSpace), <<"{">>)
    IN  IF e # 0 THEN SubSeq(s, a, b - 1) ELSE NoMatch

\* ^[+-]\s*<modifier>\s+\w+\s+(\w+)\s*\(      (public, private)
JavaMethod(s, modifier) ==
    LET a == Plus(s, Lit(s, SignAndSpaces(s), modifier), IsSpace)
        b == Plus(s, Plus(s, a, IsWord), IsSpace)
        c == Plus(s, b, IsWord)
        d == Lit(s, Star(s, c, IsSpace), <<"(">>)
    IN  IF d # 0 THEN SubSeq(s, b, c - 1) ELSE NoMatch

\* self.function_patterns, tried in order; the first that matches wins
function_patterns(s) ==
    << KeywordFunction(s, <<"d", "e", "f">>),
       KeywordFunction(s, <<"f", "u", "n", "c", "t", "i", "o", "n">>),
       CStyleFunction(s),
       JavaMethod(s, <<"p", "u", "b", "l", "i", "c">>),
       JavaMethod(s, <<"p", "r", "i", "v", "a", "t", "e">>) >>

\* ^[+-]\s*class\s+(\w+)(?:\s*\([^)]*\))?\s*:
PythonClass(s) ==
    LET a == Plus(s, Lit(s, SignAndSpaces(s), <<"c", "l", "a", "s", "s">>), IsSpace)
        b == Plus(s, a, IsWord)
        c == Lit(s, Star(s, b, IsSpace), <<"(">>)
        d == Lit(s, Star(s, c, NotClose), <<")">>)
        e == Lit(s, Star(s, IF d # 0 THEN d ELSE b, IsSpace), <<":">>)
    IN  IF e # 0 THEN SubSeq(s, a, b - 1) ELSE NoMatch

\* ^[+-]\s*class\s+(\w+)\s*{
BraceClass(s) ==
    LET a == Plus(s, Lit(s, SignAndSpaces(s), <<"c", "l", "a", "s", "s">>), IsSpace)
        b == Plus(s, a, IsWord)
        c == Lit(s, Star(s, b, IsSpace), <<"{">>)
    IN  IF c # 0 THEN SubSeq(s, a, b - 1) ELSE NoMatch

\* ^[+-]\s*public\s+class\s+(\w+)
PublicClass(s) ==
    LET a == Plus(s, Lit(s, SignAndSpaces(s), <<"p", "u", "b", "l", "i", "c">>), IsSpace)
        b == Plus(s, Lit(s, a, <<"c", "l", "a", "s", "s">>), IsSpace)
        c == Plus(s, b, IsWord)
    IN  IF c # 0 THEN SubSeq(s, b, c - 1) ELSE NoMatch

\* self.class_patterns, tried in order
class_patterns(s) == << PythonClass(s), BraceClass(s), PublicClass(s) >>

\* the name captured by the first pattern of the list that matches, or NoMatch
FirstMatch(matches) ==
    IF \A k \in 1..Len(matches) : matches[k] = NoMatch THEN NoMatch
    ELSE matches[Min({k \in 1..Len(matches) : matches[k] # NoMatch})]

DiffGitA == <<"d", "i", "f", "f", " ", "-", "-", "g", "i", "t", " ", "a", "/">>

DiffGit == <<"d", "i", "f", "f", " ", "-", "-", "g", "i", "t">>

\* self.file_pattern = ^diff --git a/(.+?) b/(.+?)$ : group(2), or NoMatch.
\* The lazy group(1) ends at the first " b/" that leaves it and group(2)
\* non-empty; group(2) then runs to the end of the line.
file_pattern(s) ==
    LET n == Len(DiffGitA)
        cuts == {i \in Occurrences(s, <<" ", "b", "/">>) :
                    StartsWith(s, DiffGitA) /\ i >= n + 2 /\ i + 3 <= Len(s)}
    IN  IF cuts = {} THEN NoMatch ELSE SubSeq(s, Min(cuts) + 3, Len(s))

\* ------------------------------------------------------------------------
\* File filter
\* ------------------------------------------------------------------------

\* constants.IGNORE_FILE_PATTERNS
IGNORE_FILE_PATTERNS ==
    << <<".", "g", "i", "t", "/">>,
       <<"_", "_", "p", "y", "c", "a", "c", "h", "e", "_", "_", "/">>,
       <<"n", "o", "d", "e", "_", "m", "o", "d", "u", "l", "e", "s", "/">>,
       <<".", "l", "o", "c", "k">>,
       <<".", "p", "n", "g">>,
       <<".", "j", "p", "g">>,
       <<".", "p", "d", "f">>,
       <<".", "z", "i", "p">>,
       <<".", "e", "x", "e">>,
       <<".", "d", "l", "l">> >>

\* a filter that lets every non-empty path through
should_include_file_all(file_path) == Truthy(file_path)

\* CommitProcessor._should_include_file: no ignore pattern occurs in the path
CommitProcessor_should_include_file(file_path) ==
    /\ Truthy(file_path)
    /\ \A k \in 1..Len(IGNORE_FILE_PATTERNS) :
           ~Contains(file_path, IGNORE_FILE_PATTERNS[k])

\* GitDiffParser._should_include_file and CommitProcessor._should_include_file
\* (the two bodies are the same): no ignore pattern occurs in the path
should_include_file(file_path) ==
    /\ Truthy(file_path)
    /\ \A k \in 1..Len(IGNORE_FILE_PATTERNS) :
           ~Contains(file_path, IGNORE_FILE_PATTERNS[k])

\* ------------------------------------------------------------------------
\* GitDiffParser
\* ------------------------------------------------------------------------

\* the locals of _parse_diff_safely before its loop
ParserStart ==
    [ added_functions    |-> {},
      removed_functions  |-> {},
      modified_functions |-> {},
      added_classes      |-> {},
      removed_classes    |-> {},
      modified_files     |-> {},
      lines_added        |-> 0,
      lines_removed      |-> 0,
      current_file       |-> None,
      should_include_current_file |-> FALSE ]

\* _parse_functions: the name goes to added on a '+' line; on a '-' line it
\* goes to removed and, when it is in added at that moment, moves to modified
parse_functions(line, st) ==
    LET function_name == FirstMatch(function_patterns(line))
    IN  IF function_name = NoMatch THEN st
        ELSE IF StartsWith(line, <<"+">>)
             THEN [st EXCEPT !.added_functions = @ \cup {function_name}]
        ELSE IF StartsWith(line, <<"-">>)
             THEN IF function_name \in st.added_functions
                  THEN [st EXCEPT
                          !.modified_functions = @ \cup {function_name},
                          !.added_functions = @ \ {function_name},
                          !.removed_functions = @ \ {function_name}]
                  ELSE [st EXCEPT !.removed_functions = @ \cup {function_name}]
        ELSE st

\* _parse_classes: the name goes to added on a '+' line, to removed on a '-'
parse_classes(line, st) ==
    LET class_name == FirstMatch(class_patterns(line))
    IN  IF class_name = NoMatch THEN st
        ELSE IF StartsWith(line, <<"+">>)
             THEN [st EXCEPT !.added_classes = @ \cup {class_name}]
        ELSE IF StartsWith(line, <<"-">>)
             THEN [st EXCEPT !.removed_classes = @ \cup {class_name}]
        ELSE st

\* the line-prefix rule without the marker exclusion (mutant of count_line)
count_line_markers(line, st) ==
    IF StartsWith(line, <<"+">>) THEN [st EXCEPT !.lines_added = @ + 1]
    ELSE IF StartsWith(line, <<"-">>) THEN [st EXCEPT !.lines_removed = @ + 1]
    ELSE st

\* the line-prefix rule shared by both passes of the parser
count_line(line, st) ==
    IF StartsWith(line, <<"+">>) /\ ~StartsWith(line, <<"+", "+", "+">>)
    THEN [st EXCEPT !.lines_added = @ + 1]
    ELSE IF StartsWith(line, <<"-">>) /\ ~StartsWith(line, <<"-", "-", "-">>)
    THEN [st EXCEPT !.lines_removed = @ + 1]
    ELSE st

\* a body of the loop that never closes the span of a file (mutant of
\* parse_line): an excluded header leaves should_include_current_file as it was
parse_line_sticky(line, st) ==
    LET path == file_pattern(line)
    IN  IF path # NoMatch
        THEN IF should_include_file(path)
             THEN [st EXCEPT !.current_file = path,
                             !.should_include_current_file = TRUE,
                             !.modified_files = @ \cup {path}]
             ELSE [st EXCEPT !.current_file = path]
        ELSE IF ~st.should_include_current_file THEN st
        ELSE parse_classes(line, parse_functions(line, count_line(line, st)))

\* one iteration of the loop of _parse_diff_safely
parse_line(line, st) ==
    LET path == file_pattern(line)
        include == should_include_file(path)
    IN  IF path # NoMatch
        THEN [st EXCEPT !.current_file = path,
                        !.should_include_current_file = include,
                        !.modified_files = IF include THEN @ \cup {path} ELSE @]
        ELSE IF ~st.should_include_current_file THEN st
        ELSE parse_classes(line, parse_functions(line, count_line(line, st)))

RECURSIVE parse_lines(_, _, _)
parse_lines(lines, i, st) ==
    IF i > Len(lines) THEN st
    ELSE parse_lines(lines, i + 1, parse_line(lines[i], st))

\* _parse_diff_safely: the locals when the loop ends; the StructuralChanges
\* returned are its first eight fields
parse_diff_safely(diff_content) == parse_lines(diff_content, 1, ParserStart)

\* one iteration of the loop of _fallback_parse
fallback_line(line, st) ==
    IF StartsWith(line, DiffGit)
    THEN LET parts == SplitWhitespace(line)
         IN  IF Len(parts) >= 4
             THEN LET file_path == RemoveFirst(parts[4], <<"b", "/">>)
                      include == should_include_file(file_path)
                  IN  [st EXCEPT
                         !.current_file = file_path,
                         !.should_include_current_file = include,
                         !.modified_files = IF include THEN @ \cup {file_path} ELSE @]
             ELSE st
    ELSE IF st.should_include_current_file THEN count_line(line, st)
    ELSE st

RECURSIVE fallback_lines(_, _, _)
fallback_lines(lines, i, st) ==
    IF i > Len(lines) THEN st
    ELSE fallback_lines(lines, i + 1, fallback_line(lines[i], st))

\* _fallback_parse: the locals when the loop ends (the name sets stay empty)
fallback_parse(diff_content) == fallback_lines(diff_content, 1, ParserStart)

\* _empty_changes
empty_changes == ParserStart

\* the StructuralChanges built from the locals of a pass
Changes(st) ==
    [ added_functions    |-> st.added_functions,
      removed_functions  |-> st.removed_functions,
      modified_functions |-> st.modified_functions,
      added_classes      |-> st.added_classes,
      removed_classes    |-> st.removed_classes,
      modified_files     |-> st.modified_files,
      lines_added        |-> st.lines_added,
      lines_removed      |-> st.lines_removed ]

\* how many leading lines _debug_diff_content prints
DebugLines == 30

NotBracket(c) == c # "" /\ c # "[" /\ c # "]"

\* console.print reads the printed line as markup: a closing tag [/name]
\* that closes no tag opened before it on the printed text raises MarkupError
\* (the text printed is "[debug] NN: " followed by the line)
markup_error(line) ==
    \E i \in Occurrences(line, <<"[", "/">>) :
        LET j == SkipWhile(line, i + 2, NotBracket)
            name == SubSeq(line, i + 2, j - 1)
        IN  /\ At(line, j) = "]"
            /\ name # <<>>
            /\ name # <<"d", "e", "b", "u", "g">>
            /\ ~\E k \in Occurrences(line, <<"[">> \o name \o <<"]">>) : k < i

\* _debug_diff_content raises on the first printed line that is bad markup
debug_diff_content_raises(diff_content) ==
    \E i \in 1..Len(diff_content) : i <= DebugLines /\ markup_error(diff_content[i])

\* ------------------------------------------------------------------------
\* CommitProcessor: the diff walk of a regular commit
\* ------------------------------------------------------------------------

ExtractorStart == [ current_file |-> None, filtered_lines |-> <<>> ]

\* one iteration of the loop of _extract_regular_commit_content
extract_line(line, st) ==
    IF StartsWith(line, DiffGit)
    THEN LET parts == SplitSpace(line)
         IN  IF Len(parts) >= 4
             THEN LET file_with_prefix == parts[4]
                  IN  IF StartsWith(file_with_prefix, <<"b", "/">>)
                         \/ StartsWith(file_with_prefix, <<"a", "/">>)
                      THEN [st EXCEPT !.current_file =
                               SubSeq(file_with_prefix, 3, Len(file_with_prefix))]
                      ELSE [st EXCEPT !.current_file = file_with_prefix]
             ELSE st
    ELSE IF Truthy(st.current_file) /\ should_include_file(st.current_file)
    THEN IF StartsWith(line, <<"+">>) /\ ~StartsWith(line, <<"+", "+", "+">>)
         THEN [st EXCEPT !.filtered_lines = Append(@, Tail(line))]
         ELSE st
    ELSE st

RECURSIVE extract_lines(_, _, _)
extract_lines(lines, i, st) ==
    IF i > Len(lines) THEN st
    ELSE extract_lines(lines, i + 1, extract_line(lines[i], st))

\* the locals of _extract_regular_commit_content when its loop ends
extract_walk(diff_content) == extract_lines(diff_content, 1, ExtractorStart)

\* _extract_regular_commit_content, given what get_commit_diff returned
extract_regular_commit_content(diff_content) ==
    IF diff_content = EmptyStr THEN EmptyStr
    ELSE JoinLines(extract_walk(diff_content).filtered_lines)

\* ------------------------------------------------------------------------
\* parse_structural_changes, DocumentBuilder, CommitProcessor
\* ------------------------------------------------------------------------

\* parse_structural_changes: how the call ends and the locals of the pass
\* that built the result.  _debug_diff_content is called outside the try
\* block, so its error leaves the call ("raised"); primary_raises says that
\* _parse_diff_safely raises (its console output fails), which the except
\* branch turns into _fallback_parse.
parse_structural_changes(diff_content, primary_raises) ==
    IF IsBlank(diff_content)
    THEN [outcome |-> "empty", locals |-> empty_changes]
    ELSE IF debug_diff_content_raises(diff_content)
    THEN [outcome |-> "raised", locals |-> None]
    ELSE IF primary_raises
    THEN [outcome |-> "degraded", locals |-> fallback_parse(diff_content)]
    ELSE [outcome |-> "full", locals |-> parse_diff_safely(diff_content)]

\* constants.FILE_SIZE_LIMIT
FILE_SIZE_LIMIT == 10000

\* the width of commit_short_hash, hash[:8]
ShortHashLength == 8

\* s[:n] on one line
Prefix(s, n) == SubSeq(s, 1, IF Len(s) < n THEN Len(s) ELSE n)

\* a slice that cuts nothing (file_content used whole)
NoTruncate(text, n) == text

\* text[:n] on a str of several lines (a line break counts one character)
RECURSIVE Truncate(_, _)
Truncate(text, n) ==
    IF Len(text[1]) >= n THEN << Prefix(text[1], n) >>
    ELSE IF Len(text) = 1 THEN text
    ELSE << text[1] >> \o Truncate(Tail(text), n - Len(text[1]) - 1)

\* The backend: one git process per call of GitCommand.run.  A fault names the
\* call that fails in a run: the commit it is made for (its position in the
\* listing, 0 for the listing itself), the command, the file (its position in
\* the file list, 0 when the command names no file) and the exception that
\* GitCommand.run raises.
NoFault == [commit |-> 0, call |-> "none", file |-> 0, error |-> "none"]

\* GitCommand.run for one call: the exception it raises, "none" when the
\* process exits with status 0
run(fault, k, call, j) ==
    IF fault.commit = k /\ fault.call = call /\ fault.file = j
    THEN fault.error
    ELSE "none"

\* GitCommand.is_initial_commit, for an error that is not FileNotFoundError:
\* True when rev-parse <hash>^ fails, whatever made it fail
is_initial_commit(commit, error) ==
    IF error = "CalledProcessError" THEN TRUE ELSE ~commit.has_parent

\* GitCommand.get_commit_diff, for an error that is not FileNotFoundError
get_commit_diff(commit, error) ==
    IF error = "CalledProcessError" THEN EmptyStr ELSE commit.diff

\* GitCommand.get_commit_files, for an error that is not FileNotFoundError
get_commit_files(commit, error) ==
    IF error = "CalledProcessError" THEN <<>> ELSE commit.files

\* GitCommand.get_file_content_at_commit, for an error that is not
\* FileNotFoundError
get_file_content_at_commit(commit, j, error) ==
    IF error = "CalledProcessError" THEN EmptyStr ELSE commit.file_content[j]

\* an exception leaves the function
Raised == [raised |-> TRUE, value |-> EmptyStr]

\* the function returns value
Returned(value) == [raised |-> FALSE, value |-> value]

\* the loop of _extract_initial_commit_content over files_changed, for the
\* commit at position k of the listing
RECURSIVE initial_lines(_, _, _, _, _, _)
initial_lines(commit, k, fault, files_changed, j, added_lines) ==
    IF j > Len(files_changed) THEN Returned(added_lines)
    ELSE IF ~should_include_file(files_changed[j])
    THEN initial_lines(commit, k, fault, files_changed, j + 1, added_lines)
    ELSE LET error == run(fault, k, "show <hash>:<path>", j)
         IN  IF error = "FileNotFoundError" THEN Raised
             ELSE LET file_content == get_file_content_at_commit(commit, j, error)
                  IN  IF file_content = EmptyStr
                      THEN initial_lines(commit, k, fault, files_changed, j + 1,
                               added_lines)
                      ELSE initial_lines(commit, k, fault, files_changed, j + 1,
                               added_lines \o Truncate(file_content, FILE_SIZE_LIMIT))

\* _extract_initial_commit_content
extract_initial_commit_content(commit, k, fault) ==
    LET error == run(fault, k, "show --name-only", 0)
    IN  IF error = "FileNotFoundError" THEN Raised
        ELSE LET r == initial_lines(commit, k, fault,
                          get_commit_files(commit, error), 1, <<>>)
             IN  IF r.raised THEN Raised ELSE Returned(JoinLines(r.value))

\* _extract_commit_content: any exception of the calls it makes becomes ""
extract_commit_content(commit, k, fault) ==
    LET parent == run(fault, k, "rev-parse", 0)
    IN  IF parent = "FileNotFoundError" THEN EmptyStr
        ELSE IF is_initial_commit(commit, parent)
        THEN LET r == extract_initial_commit_content(commit, k, fault)
             IN  IF r.raised THEN EmptyStr ELSE r.value
        ELSE LET error == run(fault, k, "show", 0)
             IN  IF error = "FileNotFoundError" THEN EmptyStr
                 ELSE extract_regular_commit_content(get_commit_diff(commit, error))

\* the character \x1F, the field separator of the log format (a field of
\* the log is a sequence of pieces of text; this piece is that character)
US == "<US>"

\* one line of git log --format=%H\x1F%s\x1F%an\x1F%ae\x1F%ai
format_log_line(commit) ==
    commit.hash \o <<US>> \o commit.subject \o <<US>> \o commit.author_name
        \o <<US>> \o commit.author_email \o <<US>> \o commit.date

\* line.split(sep, maxsplit): at most maxsplit cuts, from the left
RECURSIVE SplitFields(_, _, _, _, _, _)
SplitFields(s, sep, k, cur, acc, maxsplit) ==
    IF k > Len(s) THEN Append(acc, cur)
    ELSE IF maxsplit > 0 /\ s[k] = sep
    THEN SplitFields(s, sep, k + 1, <<>>, Append(acc, cur), maxsplit - 1)
    ELSE SplitFields(s, sep, k + 1, Append(cur, s[k]), acc, maxsplit)

\* the loop of get_commits over the lines of the log
RECURSIVE parse_log(_, _, _)
parse_log(lines, k, commits) ==
    IF k > Len(lines) THEN commits
    ELSE IF lines[k] = <<>> THEN parse_log(lines, k + 1, commits)
    ELSE LET parts == SplitFields(lines[k], US, 1, <<>>, <<>>, 4)
         IN  IF Len(parts) = 5
             THEN parse_log(lines, k + 1, Append(commits,
                      [ hash    |-> parts[1],
                        summary |-> parts[2],
                        author  |-> parts[3] \o <<" <">> \o parts[4] \o <<">">>,
                        date    |-> parts[5] ]))
             ELSE parse_log(lines, k + 1, commits)

\* a get_commits without its except branch: the log is parsed whatever git
\* log did
get_commits_unguarded(listing, error) ==
    parse_log([k \in 1..Len(listing) |-> format_log_line(listing[k])], 1, <<>>)

\* GitCommand.get_commits, for an error that is not FileNotFoundError: one
\* dict per line of the log, [] when git log fails
get_commits(listing, error) ==
    IF error = "CalledProcessError" THEN <<>>
    ELSE parse_log([k \in 1..Len(listing) |-> format_log_line(listing[k])], 1, <<>>)

\* the CommitData built by extract_commits
CommitData(commit_info, text) ==
    [ hash    |-> commit_info.hash,
      summary |-> commit_info.summary,
      author  |-> commit_info.author,
      date    |-> commit_info.date,
      content |-> text ]

\* DocumentBuilder._create_document, given the StructuralChanges parsed from
\* commit_data.content; `changes` is what the text of the document is
\* formatted from
create_document(commit_data, changes) ==
    [ metadata |->
        [ commit_hash       |-> commit_data.hash,
          commit_short_hash |-> Prefix(commit_data.hash, ShortHashLength),
          author            |-> commit_data.author,
          date              |-> commit_data.date,
          summary           |-> commit_data.summary,
          added_functions   |-> Cardinality(changes.added_functions),
          removed_functions |-> Cardinality(changes.removed_functions),
          modified_files    |-> Cardinality(changes.modified_files),
          lines_added       |-> changes.lines_added,
          lines_removed     |-> changes.lines_removed ],
      changes |-> changes ]

\* DocumentBuilder._format_semantic_content: the lines of the text after the
\* three head lines and the empty line, each by its label
format_semantic_content(changes) ==
    (IF changes.added_functions # {} THEN <<"Added Functions">> ELSE <<>>)
    \o (IF changes.removed_functions # {} THEN <<"Removed Functions">> ELSE <<>>)
    \o (IF changes.modified_functions # {} THEN <<"Modified Functions">> ELSE <<>>)
    \o (IF changes.added_classes # {} THEN <<"Added Classes">> ELSE <<>>)
    \o (IF changes.removed_classes # {} THEN <<"Removed Classes">> ELSE <<>>)
    \o (IF changes.modified_files # {} THEN <<"Modified Files">> ELSE <<>>)
    \o (IF changes.lines_added # 0 \/ changes.lines_removed # 0
        THEN <<"Code Changes">> ELSE <<>>)
    \o (IF \/ changes.added_functions # {}
           \/ changes.removed_functions # {}
           \/ changes.added_classes # {}
           \/ changes.removed_classes # {}
           \/ changes.modified_files # {}
        THEN <<"Summary">> ELSE <<>>)

\* ------------------------------------------------------------------------
\* GitIndexer, StorageManager
\* ------------------------------------------------------------------------

\* GitIndexer._should_include_file, layer 1
gitignore_patterns ==
    << <<".", "g", "i", "t", "/">>,
       <<"_", "_", "p", "y", "c", "a", "c", "h", "e", "_", "_", "/">>,
       <<"n", "o", "d", "e", "_", "m", "o", "d", "u", "l", "e", "s", "/">> >>

\* GitIndexer._should_include_file, layer 2
ignore_patterns ==
    << <<".", "l", "o", "c", "k">>,
       <<".", "p", "n", "g">>,
       <<".", "j", "p", "g">>,
       <<".", "p", "d", "f">>,
       <<".", "z", "i", "p">>,
       <<".", "e", "x", "e">>,
       <<".", "d", "l", "l">> >>

\* GitIndexer._should_include_file: a layer 1 pattern anywhere in the path
\* or a layer 2 pattern at its end rejects it
GitIndexer_should_include_file(file_path) ==
    /\ Truthy(file_path)
    /\ \A k \in 1..Len(gitignore_patterns) : ~Contains(file_path, gitignore_patterns[k])
    /\ \A k \in 1..Len(ignore_patterns) : ~EndsWith(file_path, ignore_patterns[k])

\* the size limit of GitIndexer._extract_added_lines, file_content[:10000]
IndexerSizeLimit == 10000

\* the loop of GitIndexer._extract_added_lines over the files of an initial
\* commit
RECURSIVE GitIndexer_initial_lines(_, _, _)
GitIndexer_initial_lines(commit, j, added_lines) ==
    IF j > Len(commit.files) THEN added_lines
    ELSE IF ~GitIndexer_should_include_file(commit.files[j])
    THEN GitIndexer_initial_lines(commit, j + 1, added_lines)
    ELSE GitIndexer_initial_lines(commit, j + 1,
             added_lines \o Truncate(commit.file_content[j], IndexerSizeLimit))

\* GitIndexer._extract_added_lines.  For a commit with a parent the code
\* reads item.diff of commit.diff(parent); it does not ask for patches
\* (create_patch), so every item.diff is empty and every item is skipped.
GitIndexer_extract_added_lines(commit) ==
    IF ~commit.has_parent
    THEN JoinLines(GitIndexer_initial_lines(commit, 1, <<>>))
    ELSE EmptyStr

\* GitIndexer._get_commits: the commits iter_commits yields, [] when it
\* raises
GitIndexer_get_commits(listing, error) ==
    IF error # "none" THEN <<>> ELSE listing

\* the Document that GitIndexer.index_repository builds
GitIndexer_document(commit, text) ==
    [ text |-> [summary |-> commit.subject, diff_content |-> text],
      metadata |->
        [ commit_hash |-> commit.hash,
          author      |-> commit.author_name \o <<" <">> \o commit.author_email \o <<">">>,
          date        |-> commit.date ] ]

\* the hexadecimal digits
HexDigits == <<"0", "1", "2", "3", "4", "5", "6", "7", "8", "9", "a", "b", "c", "d", "e", "f">>

\* the characters of a repository path, for their codes
PathAlphabet == <<"/", "r", "w">>

\* the code of a character of a repository path
Ord(c) == CHOOSE k \in 1..Len(PathAlphabet) : PathAlphabet[k] = c

\* the length of hashlib.sha256(...).hexdigest()
DigestLength == 64

\* hashlib.sha256(text.encode()).hexdigest(): SHA-256 is stood for by a fixed
\* function from strings to DigestLength hexadecimal digits
sha256_hexdigest(text) ==
    [ k \in 1..DigestLength |->
        HexDigits[((Len(text) * 7 + k * Ord(text[((k - 1) % Len(text)) + 1]) + k \div 16) % 16) + 1] ]

\* the width of the directory name of GitIndexer, hexdigest()[:16]
IndexerHashLength == 16

\* GitIndexer._get_storage_path: ~/.gitdive/repos/<the first 16 digits>
GitIndexer_get_storage_path(repo_path) ==
    << "~", ".gitdive", "repos",
       SubSeq(sha256_hexdigest(repo_path), 1, IndexerHashLength) >>

\* StorageManager.get_storage_path: ~/STORAGE_BASE_DIR/REPOS_SUBDIR/<the digest>
get_storage_path(repo_path) ==
    << "~", ".gitdive", "repos", sha256_hexdigest(repo_path) >>

\* StorageManager.load_existing_index on a disk: None without the directory
load_existing_index(repo_path, directories) ==
    IF get_storage_path(repo_path) \notin directories THEN "None" ELSE "Index"

\* GitIndexer.validate_repository: what it returns and what it leaves in
\* self.repo, given what lies at repo_path
validate_repository(at, repo_before) ==
    IF at \in {"missing", "file"}
    THEN [returns |-> "False", repo |-> repo_before]
    ELSE IF at = ".git"
    THEN [returns |-> "False", repo |-> repo_before]
    ELSE IF at = "inside .git"
    THEN [returns |-> "False", repo |-> repo_before]
    ELSE IF at = "directory"
    THEN [returns |-> "False", repo |-> repo_before]
    ELSE IF at = "bare"
    THEN [returns |-> "False", repo |-> "Repo"]
    ELSE [returns |-> "True", repo |-> "Repo"]

\* ------------------------------------------------------------------------
\* State
\* ------------------------------------------------------------------------

VARIABLES
    diff_content,   \* the str handed to the operation on one text
    outcome,        \* "idle" before that operation, then how it ended
    locals,         \* the locals of the pass that produced the result, or None
    content,        \* what _extract_regular_commit_content returned, or None
    repo,           \* the commits the backend lists, newest first
    fault,          \* the backend call that fails in this run, or NoFault
    pc,             \* where the pipeline is: extract, build, done, raised
    i,              \* the index of the loop the pipeline is in
    commits_data,   \* extract_commits: the list being built, then returned
    documents,      \* build_documents: the list being built, then returned;
                    \* batch_insert_documents: the batch it is given
    path,           \* GitIndexer.repo_path: what lies at the resolved path
    self_repo,      \* GitIndexer.repo: "None" or "Repo"
    validated,      \* what validate_repository last returned, "none" before
    indexed,        \* what index_repository returned, "none" before
    store,          \* the documents index.insert has stored, oldest first
    inserted,       \* what batch_insert_documents returned, 0 before
    file_path,      \* the path handed to the file filters, or None
    verdicts,       \* what each _should_include_file returned, "none" before
    repo_path,      \* str(repo_path), resolved, of GitIndexer and QueryService
    disk,           \* the storage directories that exist
    loaded          \* what load_existing_index returned, "none" before

textVars == <<diff_content, outcome, locals, content>>

pipeVars == <<repo, fault, pc, i, commits_data, documents>>

indexVars == <<path, self_repo, validated, indexed, store, inserted>>

filterVars == <<file_path, verdicts>>

locationVars == <<repo_path, disk, loaded>>

vars == <<diff_content, outcome, locals, content,
          repo, fault, pc, i, commits_data, documents,
          path, self_repo, validated, indexed, store, inserted,
          file_path, verdicts, repo_path, disk, loaded>>

\* ------------------------------------------------------------------------
\* Spec: one operation on one text
\* ------------------------------------------------------------------------

\* the longest text, in lines
MaxLines == 3

\* header lines
HeaderPlain   == DiffGitA \o <<"f", ".", "p", "y", " ", "b", "/", "f", ".", "p", "y">>

HeaderIgnored == DiffGitA \o <<"n", "o", "d", "e", "_", "m", "o", "d", "u", "l", "e", "s", "/", "m">>
                     \o <<" ", "b", "/", "n", "o", "d", "e", "_", "m", "o", "d", "u", "l", "e", "s", "/", "m">>

HeaderSpaces  == DiffGitA \o <<"m", "y", " ", "f", ".", "p", "y", " ", "b", "/", "m", "y", " ", "f", ".", "p", "y">>

HeaderRename  == DiffGitA \o <<"o", ".", "p", "y", " ", "b", "/", "n", ".", "p", "y">>

HeaderBare    == DiffGit \o <<" ", "o", ".", "p", "y", " ", "n", ".", "p", "y">>

\* content lines
PlusDef    == <<"+", "d", "e", "f", " ", "a", "(", ")", ":">>

MinusDef   == <<"-", "d", "e", "f", " ", "a", "(", ")", ":">>

PlusClass  == <<"+", "c", "l", "a", "s", "s", " ", "A", ":">>

MinusClass == <<"-", "c", "l", "a", "s", "s", " ", "A", ":">>

PlusPlus   == <<"+", "+", "x">>

PlusMarker  == <<"+", "+", "+", " ", "b", "/", "f", ".", "p", "y">>

MinusMarker == <<"-", "-", "-", " ", "a", "/", "f", ".", "p", "y">>

PlusTag    == <<"+", "[", "/", "b", "]">>

\* the lines a text is made of
Vocabulary ==
    { HeaderPlain, HeaderIgnored, HeaderSpaces, HeaderRename, HeaderBare,
      PlusDef, MinusDef, PlusClass, MinusClass, PlusPlus, PlusMarker,
      MinusMarker, PlusTag, <<>>, <<" ">> }

Texts == UNION { [1..n -> Vocabulary] : n \in 1..MaxLines }

\* no filter has been called
NoVerdicts == [ CommitProcessor |-> "none", GitDiffParser |-> "none", GitIndexer |-> "none" ]

\* what a filter returned
Returns(b) == IF b THEN "True" ELSE "False"

\* no file filter is called on its own
FilterOff ==
    /\ file_path = None
    /\ verdicts = NoVerdicts

\* no storage directory is made or looked for
LocationOff ==
    /\ repo_path = None
    /\ disk = {}
    /\ loaded = "none"

\* no GitIndexer and no StorageManager call is made
IndexerOff ==
    /\ path = "none"
    /\ self_repo = "None"
    /\ validated = "none"
    /\ indexed = "none"
    /\ store = <<>>
    /\ inserted = 0

PipelineOff ==
    /\ repo = <<>>
    /\ fault = NoFault
    /\ pc = "off"
    /\ i = 0
    /\ commits_data = <<>>
    /\ documents = <<>>

Init ==
    /\ diff_content \in Texts
    /\ outcome = "idle"
    /\ locals = None
    /\ content = None
    /\ FilterOff
    /\ LocationOff
    /\ PipelineOff
    /\ IndexerOff

\* parse_structural_changes on a blank str: _empty_changes
ParseEmpty ==
    /\ outcome = "idle"
    /\ parse_structural_changes(diff_content, FALSE).outcome = "empty"
    /\ outcome' = "empty"
    /\ locals' = parse_structural_changes(diff_content, FALSE).locals
    /\ UNCHANGED <<diff_content, content>>
    /\ UNCHANGED pipeVars
    /\ UNCHANGED indexVars
    /\ UNCHANGED filterVars
    /\ UNCHANGED locationVars

\* _debug_diff_content raises and the error leaves parse_structural_changes
ParseDebugRaises ==
    /\ outcome = "idle"
    /\ parse_structural_changes(diff_content, FALSE).outcome = "raised"
    /\ outcome' = "raised"
    /\ locals' = parse_structural_changes(diff_content, FALSE).locals
    /\ UNCHANGED <<diff_content, content>>
    /\ UNCHANGED pipeVars
    /\ UNCHANGED indexVars
    /\ UNCHANGED filterVars
    /\ UNCHANGED locationVars

\* _parse_diff_safely returns
ParseFull ==
    /\ outcome = "idle"
    /\ parse_structural_changes(diff_content, FALSE).outcome = "full"
    /\ outcome' = "full"
    /\ locals' = parse_structural_changes(diff_content, FALSE).locals
    /\ UNCHANGED <<diff_content, content>>
    /\ UNCHANGED pipeVars
    /\ UNCHANGED indexVars
    /\ UNCHANGED filterVars
    /\ UNCHANGED locationVars

\* _parse_diff_safely raises and _fallback_parse returns
ParseDegraded ==
    /\ outcome = "idle"
    /\ parse_structural_changes(diff_content, TRUE).outcome = "degraded"
    /\ outcome' = "degraded"
    /\ locals' = parse_structural_changes(diff_content, TRUE).locals
    /\ UNCHANGED <<diff_content, content>>
    /\ UNCHANGED pipeVars
    /\ UNCHANGED indexVars
    /\ UNCHANGED filterVars
    /\ UNCHANGED locationVars

\* _extract_regular_commit_content on what get_commit_diff returned
ExtractRegular ==
    /\ outcome = "idle"
    /\ outcome' = "extracted"
    /\ locals' = extract_walk(diff_content)
    /\ content' = extract_regular_commit_content(diff_content)
    /\ UNCHANGED diff_content
    /\ UNCHANGED pipeVars
    /\ UNCHANGED indexVars
    /\ UNCHANGED filterVars
    /\ UNCHANGED locationVars

Next ==
    \/ ParseEmpty
    \/ ParseDebugRaises
    \/ ParseFull
    \/ ParseDegraded
    \/ ExtractRegular

Spec == Init /\ [][Next]_vars

\* ------------------------------------------------------------------------
\* SpecPipeline: extract_commits followed by build_documents on a repository
\* ------------------------------------------------------------------------

\* the longest listing, in commits
MaxCommits == 3

FooPy == <<"f", "o", "o", ".", "p", "y">>

HeaderFoo == <<"d", "i", "f", "f", " ", "-", "-", "g", "i", "t", " ", "a", "/", "f", "o", "o", ".", "p", "y", " ", "b", "/", "f", "o", "o", ".", "p", "y">>

OldFoo == <<"-", "-", "-", " ", "a", "/", "f", "o", "o", ".", "p", "y">>

NewFoo == <<"+", "+", "+", " ", "b", "/", "f", "o", "o", ".", "p", "y">>

DevNull == <<"-", "-", "-", " ", "/", "d", "e", "v", "/", "n", "u", "l", "l">>

Hunk11 == <<"@", "@", " ", "-", "1", " ", "+", "1", " ", "@", "@">>

Hunk01 == <<"@", "@", " ", "-", "0", ",", "0", " ", "+", "1", " ", "@", "@">>

DefPass == <<"d", "e", "f", " ", "a", "(", ")", ":", " ", "p", "a", "s", "s">>

DefReturn == <<"d", "e", "f", " ", "a", "(", ")", ":", " ", "r", "e", "t", "u", "r", "n", " ", "1">>

ModuleJs == <<"n", "o", "d", "e", "_", "m", "o", "d", "u", "l", "e", "s", "/", "m", ".", "j", "s">>

HeaderModuleJs == DiffGitA \o ModuleJs \o <<" ", "b", "/">> \o ModuleJs

FixPatch == <<"f", "i", "x", ".", "p", "a", "t", "c", "h">>

FunctionG == <<"f", "u", "n", "c", "t", "i", "o", "n", " ", "g", "(", ")", " ", "{">>

TagLine == <<"x", " ", "=", " ", "r", "[", "/", "b", "]">>

\* the root commit: adds foo.py holding "def a(): pass\n"
RootFoo ==
    [ hash |-> <<"c", "0", "f", "f", "e", "e", "0", "0", "0", "0", "a", "a">>,
      subject |-> <<"add foo">>, author_name |-> <<"Ann">>, author_email |-> <<"ann@x.org">>,
      date |-> <<"2024-01-01 10:00:00 +0000">>,
      has_parent |-> FALSE,
      diff |-> << HeaderFoo, DevNull, NewFoo, Hunk01, <<"+">> \o DefPass, <<>> >>,
      files |-> << FooPy >>,
      file_content |-> << << DefPass, <<>> >> >> ]

\* changes foo.py to hold "def a(): return 1\n"
ModFoo ==
    [ hash |-> <<"c", "0", "f", "f", "e", "e", "0", "0", "0", "1", "b", "b">>,
      subject |-> <<"change a">>, author_name |-> <<"Bob">>, author_email |-> <<"bob@x.org">>,
      date |-> <<"2024-01-02 10:00:00 +0000">>,
      has_parent |-> TRUE,
      diff |-> << HeaderFoo, OldFoo, NewFoo, Hunk11,
                  <<"-">> \o DefPass, <<"+">> \o DefReturn, <<>> >>,
      files |-> << FooPy >>,
      file_content |-> << << DefReturn, <<>> >> >> ]

\* touches only a file the filter rejects
ModIgnored ==
    [ hash |-> <<"c", "0", "f", "f", "e", "e", "0", "0", "0", "2", "c", "c">>,
      subject |-> <<"vendor">>, author_name |-> <<"Ann">>, author_email |-> <<"ann@x.org">>,
      date |-> <<"2024-01-03 10:00:00 +0000">>,
      has_parent |-> TRUE,
      diff |-> << HeaderModuleJs, <<"-", "-", "-", " ", "a", "/">> \o ModuleJs,
                  <<"+", "+", "+", " ", "b", "/">> \o ModuleJs, Hunk01,
                  <<"+">> \o FunctionG, <<>> >>,
      files |-> << ModuleJs >>,
      file_content |-> << << FunctionG, <<>> >> >> ]

\* removes the only line of foo.py
ModDelete ==
    [ hash |-> <<"c", "0", "f", "f", "e", "e", "0", "0", "0", "3", "d", "d">>,
      subject |-> <<"drop a">>, author_name |-> <<"Bob">>, author_email |-> <<"bob@x.org">>,
      date |-> <<"2024-01-04 10:00:00 +0000">>,
      has_parent |-> TRUE,
      diff |-> << HeaderFoo, OldFoo, NewFoo, Hunk11, <<"-">> \o DefReturn, <<>> >>,
      files |-> << FooPy >>,
      file_content |-> << EmptyStr >> ]

\* adds to foo.py a line that holds a closing markup tag
ModTag ==
    [ hash |-> <<"c", "0", "f", "f", "e", "e", "0", "0", "0", "4", "e", "e">>,
      subject |-> <<"add tag">>, author_name |-> <<"Ann">>, author_email |-> <<"ann@x.org">>,
      date |-> <<"2024-01-05 10:00:00 +0000">>,
      has_parent |-> TRUE,
      diff |-> << HeaderFoo, OldFoo, NewFoo, Hunk01, <<"+">> \o TagLine, <<>> >>,
      files |-> << FooPy >>,
      file_content |-> << << TagLine, <<>> >> >> ]

\* adds fix.patch, a file that itself holds a diff of "my f.py"; the subject
\* of the commit holds the character \x1F
ModPatch ==
    [ hash |-> <<"c", "0", "f", "f", "e", "e", "0", "0", "0", "5", "f", "f">>,
      subject |-> <<"add", US, "patch">>, author_name |-> <<"Bob">>, author_email |-> <<"bob@x.org">>,
      date |-> <<"2024-01-06 10:00:00 +0000">>,
      has_parent |-> TRUE,
      diff |-> << DiffGitA \o FixPatch \o <<" ", "b", "/">> \o FixPatch, DevNull,
                  <<"+", "+", "+", " ", "b", "/">> \o FixPatch, Hunk01,
                  <<"+">> \o HeaderSpaces, <<"+", "-", "x">>, <<"+", "+", "y">>, <<>> >>,
      files |-> << FixPatch >>,
      file_content |-> << << HeaderSpaces, <<"-", "x">>, <<"+", "y">>, <<>> >> >> ]

BarPy == <<"b", "a", "r", ".", "p", "y">>

BigTxt == <<"b", "i", "g", ".", "t", "x", "t">>

PackageLock == <<"p", "a", "c", "k", "a", "g", "e", ".", "l", "o", "c", "k">>

EmptyTxt == <<"e", "m", "p", "t", "y", ".", "t", "x", "t">>

DefB == <<"d", "e", "f", " ", "b", "(", ")", ":", " ", "p", "a", "s", "s">>

\* a line one character short of FILE_SIZE_LIMIT
LongLine == [n \in 1..(FILE_SIZE_LIMIT - 1) |-> "x"]

\* a root commit of four files: big.txt holds LongLine, a line break and
\* "yz" (two characters more than FILE_SIZE_LIMIT), package.lock is rejected
\* by the filter, empty.txt is empty, bar.py holds "def b(): pass\n"
RootBig ==
    [ hash |-> <<"c", "0", "f", "f", "e", "e", "0", "0", "0", "6", "a", "b">>,
      subject |-> <<"import">>, author_name |-> <<"Ann">>, author_email |-> <<"ann@x.org">>,
      date |-> <<"2024-01-01 09:00:00 +0000">>,
      has_parent |-> FALSE,
      diff |-> << DiffGitA \o BigTxt \o <<" ", "b", "/">> \o BigTxt, DevNull,
                  <<"+", "+", "+", " ", "b", "/">> \o BigTxt, Hunk01,
                  <<"+">> \o LongLine, <<"+", "y", "z">>,
                  DiffGitA \o PackageLock \o <<" ", "b", "/">> \o PackageLock, DevNull,
                  <<"+", "+", "+", " ", "b", "/">> \o PackageLock, Hunk01,
                  <<"+", "{", "}">>,
                  DiffGitA \o EmptyTxt \o <<" ", "b", "/">> \o EmptyTxt,
                  DiffGitA \o BarPy \o <<" ", "b", "/">> \o BarPy, DevNull,
                  <<"+", "+", "+", " ", "b", "/">> \o BarPy, Hunk01,
                  <<"+">> \o DefB, <<>> >>,
      files |-> << BigTxt, PackageLock, EmptyTxt, BarPy >>,
      file_content |-> << << LongLine, <<"y", "z">> >>,
                          << <<"{", "}">>, <<>> >>,
                          EmptyStr,
                          << DefB, <<>> >> >> ]

\* changes foo.py and adds bar.py
ModTwo ==
    [ hash |-> <<"c", "0", "f", "f", "e", "e", "0", "0", "0", "7", "c", "d">>,
      subject |-> <<"two files">>, author_name |-> <<"Bob">>, author_email |-> <<"bob@x.org">>,
      date |-> <<"2024-01-07 10:00:00 +0000">>,
      has_parent |-> TRUE,
      diff |-> << HeaderFoo, OldFoo, NewFoo, Hunk11,
                  <<"-">> \o DefReturn, <<"+">> \o DefPass,
                  DiffGitA \o BarPy \o <<" ", "b", "/">> \o BarPy, DevNull,
                  <<"+", "+", "+", " ", "b", "/">> \o BarPy, Hunk01,
                  <<"+">> \o DefB, <<>> >>,
      files |-> << FooPy, BarPy >>,
      file_content |-> << << DefPass, <<>> >>, << DefB, <<>> >> >> ]

CommitPool == { RootFoo, ModFoo, ModIgnored, ModDelete, ModTag, ModPatch, ModTwo }

\* the exceptions GitCommand.run raises
Errors == { "CalledProcessError", "FileNotFoundError" }

\* the single faults of a run on a listing, and no fault
Faults(listing) ==
    { NoFault }
    \cup { [commit |-> 0, call |-> "log", file |-> 0, error |-> e] : e \in Errors }
    \cup { [commit |-> k, call |-> c, file |-> 0, error |-> e] :
             k \in 1..Len(listing),
             c \in {"rev-parse", "show", "show --name-only"},
             e \in Errors }
    \cup UNION { { [commit |-> k, call |-> "show <hash>:<path>", file |-> j, error |-> e] :
                     j \in 1..Len(listing[k].files), e \in Errors } :
                 k \in 1..Len(listing) }

\* the listings: distinct commits, newest first, a root commit only last
Repos ==
    { r \in UNION { [1..n -> CommitPool] : n \in 0..MaxCommits } :
        /\ \A a, b \in 1..Len(r) : a # b => r[a] # r[b]
        /\ \A a \in 1..Len(r) : ~r[a].has_parent => a = Len(r) }

InitPipeline ==
    /\ IndexerOff
    /\ repo \in Repos
    /\ fault \in Faults(repo)
    /\ pc = "extract"
    /\ i = 1
    /\ commits_data = <<>>
    /\ documents = <<>>
    /\ diff_content = EmptyStr
    /\ outcome = "off"
    /\ locals = None
    /\ content = None
    /\ FilterOff
    /\ LocationOff

\* one iteration of the loop of extract_commits
ExtractCommit ==
    /\ pc = "extract"
    /\ run(fault, 0, "log", 0) # "FileNotFoundError"
    /\ LET commits_info == get_commits(repo, run(fault, 0, "log", 0))
       IN  /\ i <= Len(commits_info)
           /\ run(fault, i, "progress_callback", 0) = "none"
           /\ LET text == extract_commit_content(repo[i], i, fault)
              IN  commits_data' = IF ~IsBlank(text)
                                  THEN Append(commits_data, CommitData(commits_info[i], text))
                                  ELSE commits_data
    /\ i' = i + 1
    /\ UNCHANGED <<repo, fault, pc, documents>>
    /\ UNCHANGED textVars
    /\ UNCHANGED indexVars
    /\ UNCHANGED filterVars
    /\ UNCHANGED locationVars

\* extract_commits returns commits_data; build_documents starts on it
ExtractReturn ==
    /\ pc = "extract"
    /\ run(fault, 0, "log", 0) # "FileNotFoundError"
    /\ i > Len(get_commits(repo, run(fault, 0, "log", 0)))
    /\ pc' = "build"
    /\ i' = 1
    /\ UNCHANGED <<repo, fault, commits_data, documents>>
    /\ UNCHANGED textVars
    /\ UNCHANGED indexVars
    /\ UNCHANGED filterVars
    /\ UNCHANGED locationVars

\* get_commits raises FileNotFoundError: extract_commits returns [];
\* build_documents starts on it
ExtractRaises ==
    /\ pc = "extract"
    /\ run(fault, 0, "log", 0) = "FileNotFoundError"
    /\ commits_data' = <<>>
    /\ pc' = "build"
    /\ i' = 1
    /\ UNCHANGED <<repo, fault, documents>>
    /\ UNCHANGED textVars
    /\ UNCHANGED indexVars
    /\ UNCHANGED filterVars
    /\ UNCHANGED locationVars

\* build_documents with a parser that keeps its collections and counts from
\* one call to the next
BuildDocumentShared ==
    /\ pc = "build"
    /\ i <= Len(commits_data)
    /\ LET r == parse_structural_changes(commits_data[i].content, FALSE)
           kept == IF documents = <<>> THEN ParserStart
                   ELSE [ParserStart EXCEPT
                           !.added_functions = documents[Len(documents)].changes.added_functions,
                           !.modified_files = documents[Len(documents)].changes.modified_files,
                           !.lines_added = documents[Len(documents)].changes.lines_added,
                           !.lines_removed = documents[Len(documents)].changes.lines_removed]
       IN  /\ r.outcome \in {"full", "empty"}
           /\ documents' = Append(documents,
                  create_document(commits_data[i],
                      Changes(IF r.outcome = "full"
                              THEN parse_lines(commits_data[i].content, 1, kept)
                              ELSE r.locals)))
    /\ i' = i + 1
    /\ UNCHANGED <<repo, fault, pc, commits_data>>
    /\ UNCHANGED textVars
    /\ UNCHANGED indexVars
    /\ UNCHANGED filterVars
    /\ UNCHANGED locationVars

\* a progress callback that keeps what extract_commits has extracted so far
ExtractCallbackKeeps ==
    /\ pc = "extract"
    /\ run(fault, 0, "log", 0) # "FileNotFoundError"
    /\ i <= Len(get_commits(repo, run(fault, 0, "log", 0)))
    /\ run(fault, i, "progress_callback", 0) # "none"
    /\ pc' = "build"
    /\ i' = 1
    /\ UNCHANGED <<repo, fault, commits_data, documents>>
    /\ UNCHANGED textVars
    /\ UNCHANGED indexVars
    /\ UNCHANGED filterVars
    /\ UNCHANGED locationVars

\* the progress callback raises in an iteration of the loop of
\* extract_commits: the outer handler returns []; build_documents starts on it
ExtractCallbackRaises ==
    /\ pc = "extract"
    /\ run(fault, 0, "log", 0) # "FileNotFoundError"
    /\ i <= Len(get_commits(repo, run(fault, 0, "log", 0)))
    /\ run(fault, i, "progress_callback", 0) # "none"
    /\ commits_data' = <<>>
    /\ pc' = "build"
    /\ i' = 1
    /\ UNCHANGED <<repo, fault, documents>>
    /\ UNCHANGED textVars
    /\ UNCHANGED indexVars
    /\ UNCHANGED filterVars
    /\ UNCHANGED locationVars

\* one iteration of the loop of build_documents: _create_document with the
\* structured pass (or, on a blank content, _empty_changes)
BuildDocument ==
    /\ pc = "build"
    /\ i <= Len(commits_data)
    /\ LET r == parse_structural_changes(commits_data[i].content, FALSE)
       IN  /\ r.outcome \in {"full", "empty"}
           /\ documents' = Append(documents,
                  create_document(commits_data[i], Changes(r.locals)))
    /\ i' = i + 1
    /\ UNCHANGED <<repo, fault, pc, commits_data>>
    /\ UNCHANGED textVars
    /\ UNCHANGED indexVars
    /\ UNCHANGED filterVars
    /\ UNCHANGED locationVars

\* one iteration of the loop of build_documents: _create_document with the
\* degraded pass
BuildDocumentDegraded ==
    /\ pc = "build"
    /\ i <= Len(commits_data)
    /\ LET r == parse_structural_changes(commits_data[i].content, TRUE)
       IN  /\ r.outcome = "degraded"
           /\ documents' = Append(documents,
                  create_document(commits_data[i], Changes(r.locals)))
    /\ i' = i + 1
    /\ UNCHANGED <<repo, fault, pc, commits_data>>
    /\ UNCHANGED textVars
    /\ UNCHANGED indexVars
    /\ UNCHANGED filterVars
    /\ UNCHANGED locationVars

\* _create_document raises: the error of _debug_diff_content leaves
\* build_documents, which has no handler
BuildRaises ==
    /\ pc = "build"
    /\ i <= Len(commits_data)
    /\ parse_structural_changes(commits_data[i].content, FALSE).outcome = "raised"
    /\ pc' = "raised"
    /\ UNCHANGED <<repo, fault, i, commits_data, documents>>
    /\ UNCHANGED textVars
    /\ UNCHANGED indexVars
    /\ UNCHANGED filterVars
    /\ UNCHANGED locationVars

\* build_documents returns documents
BuildReturn ==
    /\ pc = "build"
    /\ i > Len(commits_data)
    /\ pc' = "done"
    /\ UNCHANGED <<repo, fault, i, commits_data, documents>>
    /\ UNCHANGED textVars
    /\ UNCHANGED indexVars
    /\ UNCHANGED filterVars
    /\ UNCHANGED locationVars

NextPipeline ==
    \/ ExtractCommit
    \/ ExtractReturn
    \/ ExtractRaises
    \/ BuildDocument
    \/ BuildDocumentDegraded
    \/ BuildRaises
    \/ BuildReturn

SpecPipeline == InitPipeline /\ [][NextPipeline]_vars

\* the longest listing of a run checked for what it eventually reaches
MaxFairCommits == 2

InitPipelineFair ==
    /\ InitPipeline
    /\ Len(repo) <= MaxFairCommits

\* the step of the loop of extract_commits, seen on its index alone: among
\* the steps of NextPipeline only ExtractCommit is one
ExtractAdvances ==
    /\ pc = "extract"
    /\ run(fault, 0, "log", 0) # "FileNotFoundError"
    /\ i <= Len(get_commits(repo, run(fault, 0, "log", 0)))
    /\ i' = i + 1

\* every step of the pipeline but ExtractCommit
ReturnOrBuild ==
    \/ ExtractReturn
    \/ ExtractRaises
    \/ BuildDocument
    \/ BuildDocumentDegraded
    \/ BuildRaises
    \/ BuildReturn

\* the pipeline keeps taking steps while it has one to take: the loops of
\* extract_commits and build_documents are sequential code that runs on
SpecPipelineFair ==
    /\ InitPipelineFair
    /\ [][NextPipeline]_vars
    /\ WF_i(ExtractAdvances)
    /\ WF_vars(ReturnOrBuild)

\* ------------------------------------------------------------------------
\* SpecCallback: extract_commits with a progress callback set
\* ------------------------------------------------------------------------

\* the callback raises when it is called for the commit at position k, or
\* never raises
CallbackFaults(listing) ==
    { NoFault }
    \cup { [commit |-> k, call |-> "progress_callback", file |-> 0, error |-> "Exception"] :
             k \in 1..Len(listing) }

InitCallback ==
    /\ IndexerOff
    /\ repo \in Repos
    /\ fault \in CallbackFaults(repo)
    /\ pc = "extract"
    /\ i = 1
    /\ commits_data = <<>>
    /\ documents = <<>>
    /\ diff_content = EmptyStr
    /\ outcome = "off"
    /\ locals = None
    /\ content = None
    /\ FilterOff
    /\ LocationOff

NextCallback ==
    \/ ExtractCommit
    \/ ExtractCallbackRaises
    \/ ExtractReturn

SpecCallback == InitCallback /\ [][NextCallback]_vars

\* ------------------------------------------------------------------------
\* SpecExtract: one call of _extract_commit_content
\* ------------------------------------------------------------------------

\* the commits the call is made for
ExtractPool == CommitPool \cup { RootBig }

InitExtract ==
    /\ IndexerOff
    /\ repo \in { << c >> : c \in ExtractPool }
    /\ fault \in { f \in Faults(repo) : f.call # "log" }
    /\ pc = "content"
    /\ i = 1
    /\ commits_data = <<>>
    /\ documents = <<>>
    /\ diff_content = EmptyStr
    /\ outcome = "off"
    /\ locals = None
    /\ content = None
    /\ FilterOff
    /\ LocationOff

\* _extract_commit_content returns what _extract_initial_commit_content returned
ExtractInitial ==
    /\ pc = "content"
    /\ run(fault, 1, "rev-parse", 0) # "FileNotFoundError"
    /\ is_initial_commit(repo[1], run(fault, 1, "rev-parse", 0))
    /\ ~extract_initial_commit_content(repo[1], 1, fault).raised
    /\ content' = extract_commit_content(repo[1], 1, fault)
    /\ pc' = "initial"
    /\ UNCHANGED <<repo, fault, i, commits_data, documents>>
    /\ UNCHANGED <<diff_content, outcome, locals>>
    /\ UNCHANGED indexVars
    /\ UNCHANGED filterVars
    /\ UNCHANGED locationVars

\* _extract_commit_content returns what _extract_regular_commit_content returned
ExtractDiff ==
    /\ pc = "content"
    /\ run(fault, 1, "rev-parse", 0) # "FileNotFoundError"
    /\ ~is_initial_commit(repo[1], run(fault, 1, "rev-parse", 0))
    /\ run(fault, 1, "show", 0) # "FileNotFoundError"
    /\ content' = extract_commit_content(repo[1], 1, fault)
    /\ pc' = "regular"
    /\ UNCHANGED <<repo, fault, i, commits_data, documents>>
    /\ UNCHANGED <<diff_content, outcome, locals>>
    /\ UNCHANGED indexVars
    /\ UNCHANGED filterVars
    /\ UNCHANGED locationVars

\* a call made for the commit raises: the except branch returns ""
ExtractFails ==
    /\ pc = "content"
    /\ \/ run(fault, 1, "rev-parse", 0) = "FileNotFoundError"
       \/ /\ run(fault, 1, "rev-parse", 0) # "FileNotFoundError"
          /\ IF is_initial_commit(repo[1], run(fault, 1, "rev-parse", 0))
             THEN extract_initial_commit_content(repo[1], 1, fault).raised
             ELSE run(fault, 1, "show", 0) = "FileNotFoundError"
    /\ content' = extract_commit_content(repo[1], 1, fault)
    /\ pc' = "failed"
    /\ UNCHANGED <<repo, fault, i, commits_data, documents>>
    /\ UNCHANGED <<diff_content, outcome, locals>>
    /\ UNCHANGED indexVars
    /\ UNCHANGED filterVars
    /\ UNCHANGED locationVars

NextExtract ==
    \/ ExtractInitial
    \/ ExtractDiff
    \/ ExtractFails

SpecExtract == InitExtract /\ [][NextExtract]_vars

\* ------------------------------------------------------------------------
\* SpecIndexer: validate_repository and index_repository of one GitIndexer
\* ------------------------------------------------------------------------

\* what can lie at repo_path: nothing, a file, a .git directory, a directory
\* inside one, a directory that is no repository, a bare repository, the
\* root of a work tree
PathKinds == {"missing", "file", ".git", "inside .git", "directory", "bare", "worktree"}

\* index.insert raises for the document of the commit at position k
InsertFaults(listing) ==
    { NoFault }
    \cup { [commit |-> k, call |-> "index.insert", file |-> 0, error |-> "Exception"] :
             k \in 1..Len(listing) }

\* the single faults of a run of index_repository, and no fault
IndexerFaults(listing) ==
    InsertFaults(listing)
    \cup { [commit |-> 0, call |-> "iter_commits", file |-> 0, error |-> "Exception"] }

\* str(repo_path) of the GitIndexer, resolved
RepoPaths == { <<"/", "r">>, <<"/", "w", "/", "r">> }

InitIndexer ==
    /\ path \in PathKinds
    /\ repo \in IF path \in {"bare", "worktree"} THEN Repos ELSE { <<>> }
    /\ fault \in IndexerFaults(repo)
    /\ self_repo = "None"
    /\ validated = "none"
    /\ indexed = "none"
    /\ store = <<>>
    /\ inserted = 0
    /\ pc = "idle"
    /\ i = 1
    /\ commits_data = <<>>
    /\ documents = <<>>
    /\ diff_content = EmptyStr
    /\ outcome = "off"
    /\ locals = None
    /\ content = None
    /\ FilterOff
    /\ repo_path \in RepoPaths
    /\ disk = {}
    /\ loaded = "none"

\* validate_repository returns False
ValidateFalse ==
    /\ pc = "idle"
    /\ validate_repository(path, self_repo).returns = "False"
    /\ validated' = "False"
    /\ self_repo' = validate_repository(path, self_repo).repo
    /\ UNCHANGED <<path, indexed, store, inserted>>
    /\ UNCHANGED pipeVars
    /\ UNCHANGED textVars
    /\ UNCHANGED filterVars
    /\ UNCHANGED locationVars

\* validate_repository returns True
ValidateTrue ==
    /\ pc = "idle"
    /\ validate_repository(path, self_repo).returns = "True"
    /\ validated' = "True"
    /\ self_repo' = validate_repository(path, self_repo).repo
    /\ UNCHANGED <<path, indexed, store, inserted>>
    /\ UNCHANGED pipeVars
    /\ UNCHANGED textVars
    /\ UNCHANGED filterVars
    /\ UNCHANGED locationVars

\* index_repository with self.repo unset: returns False
IndexNotValidated ==
    /\ pc = "idle"
    /\ indexed = "none"
    /\ self_repo = "None"
    /\ indexed' = "False"
    /\ UNCHANGED <<path, self_repo, validated, store, inserted>>
    /\ UNCHANGED pipeVars
    /\ UNCHANGED textVars
    /\ UNCHANGED filterVars
    /\ UNCHANGED locationVars

\* index_repository with self.repo set and no commit read: returns True
IndexNoCommits ==
    /\ pc = "idle"
    /\ indexed = "none"
    /\ self_repo # "None"
    /\ GitIndexer_get_commits(repo, run(fault, 0, "iter_commits", 0)) = <<>>
    /\ indexed' = "True"
    /\ UNCHANGED <<path, self_repo, validated, store, inserted>>
    /\ UNCHANGED pipeVars
    /\ UNCHANGED textVars
    /\ UNCHANGED filterVars
    /\ UNCHANGED locationVars

\* index_repository with self.repo set: _get_commits has read the commits,
\* the storage is set up and the loop starts
IndexStart ==
    /\ pc = "idle"
    /\ indexed = "none"
    /\ self_repo # "None"
    /\ GitIndexer_get_commits(repo, run(fault, 0, "iter_commits", 0)) # <<>>
    /\ pc' = "indexing"
    /\ i' = 1
    /\ UNCHANGED <<repo, fault, commits_data, documents>>
    /\ UNCHANGED indexVars
    /\ UNCHANGED textVars
    /\ UNCHANGED filterVars
    /\ disk' = disk \cup { GitIndexer_get_storage_path(repo_path) }
    /\ UNCHANGED <<repo_path, loaded>>

\* one iteration of the loop of index_repository
IndexCommit ==
    /\ pc = "indexing"
    /\ i <= Len(repo)
    /\ LET text == GitIndexer_extract_added_lines(repo[i])
       IN  /\ ~IsBlank(text) => run(fault, i, "index.insert", 0) = "none"
           /\ store' = IF ~IsBlank(text)
                       THEN Append(store, GitIndexer_document(repo[i], text))
                       ELSE store
    /\ i' = i + 1
    /\ UNCHANGED <<repo, fault, pc, commits_data, documents>>
    /\ UNCHANGED <<path, self_repo, validated, indexed, inserted>>
    /\ UNCHANGED textVars
    /\ UNCHANGED filterVars
    /\ UNCHANGED locationVars

\* index.insert raises: index_repository returns False
IndexInsertRaises ==
    /\ pc = "indexing"
    /\ i <= Len(repo)
    /\ ~IsBlank(GitIndexer_extract_added_lines(repo[i]))
    /\ run(fault, i, "index.insert", 0) # "none"
    /\ indexed' = "False"
    /\ pc' = "idle"
    /\ UNCHANGED <<repo, fault, i, commits_data, documents>>
    /\ UNCHANGED <<path, self_repo, validated, store, inserted>>
    /\ UNCHANGED textVars
    /\ UNCHANGED filterVars
    /\ UNCHANGED locationVars

\* the loop of index_repository ends: it returns True
IndexReturn ==
    /\ pc = "indexing"
    /\ i > Len(repo)
    /\ indexed' = "True"
    /\ pc' = "idle"
    /\ UNCHANGED <<repo, fault, i, commits_data, documents>>
    /\ UNCHANGED <<path, self_repo, validated, store, inserted>>
    /\ UNCHANGED textVars
    /\ UNCHANGED filterVars
    /\ UNCHANGED locationVars

NextIndexer ==
    \/ ValidateFalse
    \/ ValidateTrue
    \/ IndexNotValidated
    \/ IndexNoCommits
    \/ IndexStart
    \/ IndexCommit
    \/ IndexInsertRaises
    \/ IndexReturn

SpecIndexer == InitIndexer /\ [][NextIndexer]_vars

\* ------------------------------------------------------------------------
\* SpecQuery: a GitIndexer on a work tree and the StorageManager of a query
\* on the same path
\* ------------------------------------------------------------------------

InitQuery ==
    /\ InitIndexer
    /\ path = "worktree"
    /\ fault = NoFault

\* StorageManager.setup_storage: the directory is cleared and made anew, with
\* its collection
SetupStorage ==
    /\ pc = "idle"
    /\ get_storage_path(repo_path) \notin disk
    /\ disk' = disk \cup { get_storage_path(repo_path) }
    /\ UNCHANGED <<repo_path, loaded>>
    /\ UNCHANGED indexVars
    /\ UNCHANGED pipeVars
    /\ UNCHANGED textVars
    /\ UNCHANGED filterVars

\* StorageManager.load_existing_index returns None: no directory
LoadExistingNone ==
    /\ pc = "idle"
    /\ loaded = "none"
    /\ load_existing_index(repo_path, disk) = "None"
    /\ loaded' = "None"
    /\ UNCHANGED <<repo_path, disk>>
    /\ UNCHANGED indexVars
    /\ UNCHANGED pipeVars
    /\ UNCHANGED textVars
    /\ UNCHANGED filterVars

\* StorageManager.load_existing_index returns the index of the directory
LoadExistingIndex ==
    /\ pc = "idle"
    /\ loaded = "none"
    /\ load_existing_index(repo_path, disk) = "Index"
    /\ loaded' = "Index"
    /\ UNCHANGED <<repo_path, disk>>
    /\ UNCHANGED indexVars
    /\ UNCHANGED pipeVars
    /\ UNCHANGED textVars
    /\ UNCHANGED filterVars

NextQuery ==
    \/ ValidateTrue
    \/ IndexNotValidated
    \/ IndexNoCommits
    \/ IndexStart
    \/ IndexCommit
    \/ IndexReturn
    \/ SetupStorage
    \/ LoadExistingNone
    \/ LoadExistingIndex

SpecQuery == InitQuery /\ [][NextQuery]_vars

\* ------------------------------------------------------------------------
\* SpecRun: a run of either pipeline, extract_commits with build_documents or
\* GitIndexer
\* ------------------------------------------------------------------------

InitRun == InitPipeline \/ InitIndexer

NextRun == NextPipeline \/ NextIndexer

SpecRun == InitRun /\ [][NextRun]_vars

\* ------------------------------------------------------------------------
\* SpecStorage: one call of StorageManager.batch_insert_documents
\* ------------------------------------------------------------------------

\* the longest batch, in documents
MaxBatch == 3

\* the document that extract_commits and build_documents make of a commit
\* listed alone
document_of(commit) ==
    LET commit_data == CommitData(get_commits(<< commit >>, "none")[1],
                                  extract_commit_content(commit, 1, NoFault))
    IN  create_document(commit_data,
            Changes(parse_structural_changes(commit_data.content, FALSE).locals))

\* the batches: up to MaxBatch documents
Batches ==
    UNION { [1..n -> { document_of(c) : c \in {RootFoo, ModFoo, ModTwo, ModPatch} }] :
              n \in 0..MaxBatch }

InitStorage ==
    /\ documents \in Batches
    /\ fault \in InsertFaults(documents)
    /\ store = <<>>
    /\ inserted = 0
    /\ pc = "insert"
    /\ i = 1
    /\ path = "none"
    /\ self_repo = "None"
    /\ validated = "none"
    /\ indexed = "none"
    /\ repo = <<>>
    /\ commits_data = <<>>
    /\ diff_content = EmptyStr
    /\ outcome = "off"
    /\ locals = None
    /\ content = None
    /\ FilterOff
    /\ LocationOff

\* batch_insert_documents on an empty batch: returns 0
InsertNothing ==
    /\ pc = "insert"
    /\ documents = <<>>
    /\ inserted' = 0
    /\ pc' = "returned"
    /\ UNCHANGED <<repo, fault, i, commits_data, documents>>
    /\ UNCHANGED <<path, self_repo, validated, indexed, store>>
    /\ UNCHANGED textVars
    /\ UNCHANGED filterVars
    /\ UNCHANGED locationVars

\* one iteration of the loop of batch_insert_documents: index.insert(doc)
InsertDocument ==
    /\ pc = "insert"
    /\ i <= Len(documents)
    /\ run(fault, i, "index.insert", 0) = "none"
    /\ store' = Append(store, documents[i])
    /\ i' = i + 1
    /\ UNCHANGED <<repo, fault, pc, commits_data, documents>>
    /\ UNCHANGED <<path, self_repo, validated, indexed, inserted>>
    /\ UNCHANGED textVars
    /\ UNCHANGED filterVars
    /\ UNCHANGED locationVars

\* index.insert raises: the except branch returns 0
InsertRaises ==
    /\ pc = "insert"
    /\ i <= Len(documents)
    /\ run(fault, i, "index.insert", 0) # "none"
    /\ inserted' = 0
    /\ pc' = "returned"
    /\ UNCHANGED <<repo, fault, i, commits_data, documents>>
    /\ UNCHANGED <<path, self_repo, validated, indexed, store>>
    /\ UNCHANGED textVars
    /\ UNCHANGED filterVars
    /\ UNCHANGED locationVars

\* the loop ends: batch_insert_documents returns len(documents)
InsertReturn ==
    /\ pc = "insert"
    /\ documents # <<>>
    /\ i > Len(documents)
    /\ inserted' = Len(documents)
    /\ pc' = "returned"
    /\ UNCHANGED <<repo, fault, i, commits_data, documents>>
    /\ UNCHANGED <<path, self_repo, validated, indexed, store>>
    /\ UNCHANGED textVars
    /\ UNCHANGED filterVars
    /\ UNCHANGED locationVars

NextStorage ==
    \/ InsertNothing
    \/ InsertDocument
    \/ InsertRaises
    \/ InsertReturn

SpecStorage == InitStorage /\ [][NextStorage]_vars

\* ------------------------------------------------------------------------
\* SpecFilter: the three _should_include_file on one path
\* ------------------------------------------------------------------------

\* the directories, names and endings a path is made of
PathDirectories ==
    { <<>>,
      <<"s", "r", "c", "/">>,
      <<"d", "o", "c", "s", "/">>,
      <<".", "g", "i", "t", "/">>,
      <<"_", "_", "p", "y", "c", "a", "c", "h", "e", "_", "_", "/">>,
      <<"n", "o", "d", "e", "_", "m", "o", "d", "u", "l", "e", "s", "/">> }

PathNames == { <<"a">>, <<"l", "o", "c", "k">> }

PathEndings ==
    { <<>>,
      <<".", "p", "y">>,
      <<".", "m", "d">>,
      <<".", "l", "o", "c", "k">>,
      <<".", "p", "n", "g">>,
      <<".", "d", "l", "l">>,
      <<".", "l", "o", "c", "k", ".", "m", "d">>,
      <<".", "p", "n", "g", ".", "b", "a", "k">> }

\* the paths a filter is asked about: '' and directory + name + ending
FilterPaths ==
    { <<>> } \cup { d \o n \o e : d \in PathDirectories, n \in PathNames, e \in PathEndings }

InitFilter ==
    /\ file_path \in FilterPaths
    /\ verdicts = NoVerdicts
    /\ diff_content = EmptyStr
    /\ outcome = "off"
    /\ locals = None
    /\ content = None
    /\ PipelineOff
    /\ IndexerOff
    /\ LocationOff

\* each of the three filters is called on file_path
ApplyFilters ==
    /\ verdicts = NoVerdicts
    /\ verdicts' =
           [ CommitProcessor |-> Returns(CommitProcessor_should_include_file(file_path)),
             GitDiffParser   |-> Returns(should_include_file(file_path)),
             GitIndexer      |-> Returns(GitIndexer_should_include_file(file_path)) ]
    /\ UNCHANGED file_path
    /\ UNCHANGED textVars
    /\ UNCHANGED pipeVars
    /\ UNCHANGED indexVars
    /\ UNCHANGED locationVars

NextFilter == ApplyFilters

SpecFilter == InitFilter /\ [][NextFilter]_vars

\* ------------------------------------------------------------------------
\* Properties
\* ------------------------------------------------------------------------

\* a header line is one self.file_pattern matches; <p2> is its group(2)
IsHeader(line) == file_pattern(line) # NoMatch

\* the last header line before line k of the text, 0 when there is none
HeaderBefore(text, k) ==
    IF \E h \in 1..(k - 1) : IsHeader(text[h])
    THEN CHOOSE h \in 1..(k - 1) :
            IsHeader(text[h]) /\ \A g \in (h + 1)..(k - 1) : ~IsHeader(text[g])
    ELSE 0

\* line k lies in the span of an included file: it is no header and the
\* last header before it names a path the filter accepts
InIncludedSpan(text, k) ==
    /\ ~IsHeader(text[k])
    /\ HeaderBefore(text, k) # 0
    /\ should_include_file(file_pattern(text[HeaderBefore(text, k)]))

SpanLines(text) == {k \in 1..Len(text) : InIncludedSpan(text, k)}

\* a line that starts with the marker c but not with three of them
Marked(line, c) ==
    At(line, 1) = c /\ ~(At(line, 2) = c /\ At(line, 3) = c)

\* the function names matched on the lines of included files that start with c
FunctionNamesOn(text, c) ==
    { FirstMatch(function_patterns(text[k])) :
        k \in {j \in SpanLines(text) :
                 At(text[j], 1) = c /\ FirstMatch(function_patterns(text[j])) # NoMatch} }

\* the type names matched on the lines of included files that start with c
ClassNamesOn(text, c) ==
    { FirstMatch(class_patterns(text[k])) :
        k \in {j \in SpanLines(text) :
                 At(text[j], 1) = c /\ FirstMatch(class_patterns(text[j])) # NoMatch} }

\* C1: the structured pass returns lines_added equal to the number of lines
\* of included files that start with '+' but not with '+++', and
\* lines_removed equal to the number that start with '-' but not with '---';
\* no other line changes either counter.
C1_LineCounts ==
    outcome = "full" =>
        /\ locals.lines_added =
              Cardinality({k \in SpanLines(diff_content) : Marked(diff_content[k], "+")})
        /\ locals.lines_removed =
              Cardinality({k \in SpanLines(diff_content) : Marked(diff_content[k], "-")})

\* C1 witness: a parsed text with a counted '++x' line and an uncounted
\* '+++' marker line in the span of an included file
C1_Witness ==
    /\ outcome = "full"
    /\ \E k \in SpanLines(diff_content) : diff_content[k] = PlusPlus
    /\ \E k \in SpanLines(diff_content) : diff_content[k] = PlusMarker
    /\ locals.lines_added = 1

\* C2: a function name matched on a '+' line and on a '-' line of included
\* files is in modified_functions and in neither added_functions nor
\* removed_functions; the three sets are pairwise disjoint.
C2_ModifiedOnly ==
    outcome = "full" =>
        /\ \A name \in FunctionNamesOn(diff_content, "+") \cap FunctionNamesOn(diff_content, "-") :
               /\ name \in locals.modified_functions
               /\ name \notin locals.added_functions
               /\ name \notin locals.removed_functions
        /\ locals.added_functions \cap locals.removed_functions = {}
        /\ locals.added_functions \cap locals.modified_functions = {}
        /\ locals.removed_functions \cap locals.modified_functions = {}

\* the text with lines k and k+1 exchanged
Swap(text, k) ==
    [j \in 1..Len(text) |->
        IF j = k THEN text[k + 1] ELSE IF j = k + 1 THEN text[k] ELSE text[j]]

FunctionSets(st) ==
    <<st.added_functions, st.removed_functions, st.modified_functions>>

\* C3: exchanging two neighbouring lines of one included file leaves
\* added_functions, removed_functions and modified_functions as they are.
C3_OrderIndependent ==
    outcome = "full" =>
        \A k \in 1..(Len(diff_content) - 1) :
            (InIncludedSpan(diff_content, k) /\ InIncludedSpan(diff_content, k + 1)) =>
                FunctionSets(parse_diff_safely(Swap(diff_content, k))) = FunctionSets(locals)

\* the document built for the commit with this hash, as a set (empty or one)
DocumentsOf(hash) ==
    {documents[k] : k \in {j \in 1..Len(documents) : documents[j].metadata.commit_hash = hash}}

\* C4: with the root commit that adds "def a(): pass" and the later commit
\* that changes it to "def a(): return 1", the root commit yields
\* added_functions = {a}, the later one modified_functions = {a} with a in
\* neither added_functions nor removed_functions, and each yields one unit.
C4_TwoCommitScenario ==
    (pc = "done" /\ repo = <<ModFoo, RootFoo>>) =>
        /\ Len(documents) = 2
        /\ \A d \in DocumentsOf(RootFoo.hash) : d.changes.added_functions = {<<"a">>}
        /\ \A d \in DocumentsOf(ModFoo.hash) :
               /\ d.changes.modified_functions = {<<"a">>}
               /\ d.changes.added_functions = {}
               /\ d.changes.removed_functions = {}

\* the text without the lines that are neither headers nor in the span of an
\* included file
RECURSIVE KeepSpans(_, _)
KeepSpans(text, k) ==
    IF k > Len(text) THEN <<>>
    ELSE (IF IsHeader(text[k]) \/ InIncludedSpan(text, k) THEN <<text[k]>> ELSE <<>>)
             \o KeepSpans(text, k + 1)

\* C5: lines outside the span of an included file change nothing: the
\* structured pass returns what it returns on the text without them, every
\* name it reports was matched on a line of an included file, and
\* modified_files holds exactly the header paths the filter accepts.
C5_OutsideSpansIgnored ==
    outcome = "full" =>
        /\ Changes(locals) = Changes(parse_diff_safely(KeepSpans(diff_content, 1)))
        /\ (locals.added_functions \cup locals.removed_functions \cup locals.modified_functions)
              \subseteq (FunctionNamesOn(diff_content, "+") \cup FunctionNamesOn(diff_content, "-"))
        /\ (locals.added_classes \cup locals.removed_classes)
              \subseteq (ClassNamesOn(diff_content, "+") \cup ClassNamesOn(diff_content, "-"))
        /\ locals.modified_files =
              { file_pattern(diff_content[k]) :
                  k \in {j \in 1..Len(diff_content) :
                           /\ IsHeader(diff_content[j])
                           /\ should_include_file(file_pattern(diff_content[j]))} }
        /\ (SpanLines(diff_content) = {} =>
               locals.lines_added = 0 /\ locals.lines_removed = 0)

\* C5 witness: a declaration line after the header of a filtered path was
\* skipped, and the header of an included file after it was recorded
C5_Witness ==
    /\ outcome = "full"
    /\ \E k \in 1..Len(diff_content) :
          /\ ~InIncludedSpan(diff_content, k)
          /\ HeaderBefore(diff_content, k) # 0
          /\ FirstMatch(function_patterns(diff_content[k])) # NoMatch
          /\ \E h \in (k + 1)..Len(diff_content) :
                /\ IsHeader(diff_content[h])
                /\ file_pattern(diff_content[h]) \in locals.modified_files
    /\ locals.added_functions = {}
    /\ locals.lines_added = 0

\* C6: no type name is in both added_classes and removed_classes.
C6_ClassesDisjoint ==
    outcome = "full" => locals.added_classes \cap locals.removed_classes = {}

\* C7: on a non-blank input parse_structural_changes never lets an error
\* out: an error of any step, the diagnostic pass included, ends in the
\* degraded result, whose name collections are empty.
C7_NeverPropagates ==
    (outcome \in {"empty", "full", "degraded", "raised"} /\ ~IsBlank(diff_content)) =>
        /\ outcome # "raised"
        /\ debug_diff_content_raises(diff_content) => outcome = "degraded"
        /\ outcome = "degraded" =>
              /\ locals.added_functions = {} /\ locals.removed_functions = {}
              /\ locals.modified_functions = {}
              /\ locals.added_classes = {} /\ locals.removed_classes = {}

\* C8: the degraded pass returns the modified_files, lines_added and
\* lines_removed that the structured pass returns on the same text.
C8_FallbackAgrees ==
    outcome = "degraded" =>
        LET st == parse_diff_safely(diff_content)
        IN  /\ locals.modified_files = st.modified_files
            /\ locals.lines_added = st.lines_added
            /\ locals.lines_removed = st.lines_removed

\* C9: after a header line 'diff --git a/<p1> b/<p2>' each scanner (the
\* structured pass, the degraded pass, the diff walk of the extractor) has
\* <p2> as its current file, and the parser passes include the file exactly
\* when the filter accepts <p2>.
C9_SecondPathIsCurrentFile ==
    (outcome \in {"full", "degraded", "extracted"}
        /\ IsHeader(diff_content[Len(diff_content)])) =>
        LET p2 == file_pattern(diff_content[Len(diff_content)])
        IN  /\ locals.current_file = p2
            /\ outcome \in {"full", "degraded"} =>
                  locals.should_include_current_file = should_include_file(p2)

\* C10: the content attached to a commit that has a parent is the diff text
\* the backend returned for it.
C10_ContentIsRawDiff ==
    \A k \in 1..Len(commits_data) :
        \A c \in 1..Len(repo) :
            (repo[c].hash = commits_data[k].hash /\ repo[c].has_parent) =>
                commits_data[k].content = repo[c].diff

\* the str has a character that is not whitespace
HasInk(text) ==
    \E l \in 1..Len(text) : \E c \in 1..Len(text[l]) : ~IsSpace(text[l][c])

\* extract_commits has returned
ExtractDone == pc \in {"build", "done", "raised"}

\* the positions of the commits get_commits listed in this run
Listed == IF run(fault, 0, "log", 0) = "none" THEN 1..Len(repo) ELSE {}

\* C11: extract_commits returns a commit if and only if its extracted content
\* is not blank: every returned CommitData has a non-whitespace character in
\* its content and belongs to a listed commit, and every listed commit whose
\* extracted content is not blank is returned with that content.
C11_ReturnedIffNonBlank ==
    ExtractDone =>
        /\ \A k \in 1..Len(commits_data) :
               /\ HasInk(commits_data[k].content)
               /\ \E c \in Listed : repo[c].hash = commits_data[k].hash
        /\ \A c \in Listed :
               HasInk(extract_commit_content(repo[c], c, fault)) =>
                   \E k \in 1..Len(commits_data) :
                       /\ commits_data[k].hash = repo[c].hash
                       /\ commits_data[k].content = extract_commit_content(repo[c], c, fault)

\* a listing of three commits of which one is dropped and two are returned
C11_Witness ==
    /\ ExtractDone
    /\ fault = NoFault
    /\ Len(repo) = 3
    /\ Len(commits_data) = 2
    /\ \E c \in 1..3 : ~HasInk(extract_commit_content(repo[c], c, fault))

\* the failing call of this run is one the code makes for the listed commit
\* at position c (a root commit's rev-parse fails in every run and is not a
\* fault)
CallMade(c) ==
    /\ fault.commit = c
    /\ c \in Listed
    /\ \/ fault.call \in {"rev-parse", "show"} /\ repo[c].has_parent
       \/ fault.call = "show --name-only" /\ ~repo[c].has_parent
       \/ /\ fault.call = "show <hash>:<path>"
          /\ ~repo[c].has_parent
          /\ should_include_file(repo[c].files[fault.file])

\* the hashes, in listing order from position d on, of the commits other than
\* the one at position c whose extraction without a fault is not blank
RECURSIVE OthersFrom(_, _)
OthersFrom(d, c) ==
    IF d > Len(repo) THEN <<>>
    ELSE (IF d # c /\ HasInk(extract_commit_content(repo[d], d, NoFault))
          THEN << repo[d].hash >> ELSE <<>>) \o OthersFrom(d + 1, c)

\* the hashes of the returned list
ReturnedHashes == [k \in 1..Len(commits_data) |-> commits_data[k].hash]

\* the batch goes on after a failure for the commit at position c: the other
\* commits are returned, in listing order, whether or not c is
OthersReturned(c) ==
    \/ ReturnedHashes = OthersFrom(1, c)
    \/ ReturnedHashes = OthersFrom(1, 0)

\* C12: a backend call that fails for commit i leaves commit i without
\* content and the batch unharmed: commit i is not returned and the other
\* commits whose content is not blank are, in listing order.
C12_FailureMeansNoContent ==
    \A c \in 1..Len(repo) :
        (ExtractDone /\ CallMade(c)) =>
            /\ \A k \in 1..Len(commits_data) : commits_data[k].hash # repo[c].hash
            /\ ReturnedHashes = OthersFrom(1, c)

\* the characters of a str, a line break between two lines
RECURSIVE Flat(_)
Flat(text) ==
    IF Len(text) = 1 THEN text[1]
    ELSE text[1] \o <<"\n">> \o Flat(Tail(text))

\* the first n characters
FirstChars(chars, n) == SubSeq(chars, 1, IF Len(chars) < n THEN Len(chars) ELSE n)

\* what the backend returned for file j of the commit the call is made for
FileText(j) ==
    get_file_content_at_commit(repo[1], j, run(fault, 1, "show <hash>:<path>", j))

\* the files the backend listed for the commit the call is made for
FilesListed == get_commit_files(repo[1], run(fault, 1, "show --name-only", 0))

\* the character strings in `pieces` (positions from j on, those in `keep`
\* only), a line break between two of them
RECURSIVE JoinPieces(_, _, _, _)
JoinPieces(pieces, keep, j, first) ==
    IF j > Len(pieces) THEN <<>>
    ELSE IF j \notin keep THEN JoinPieces(pieces, keep, j + 1, first)
    ELSE (IF first THEN <<>> ELSE <<"\n">>) \o pieces[j]
             \o JoinPieces(pieces, keep, j + 1, FALSE)

\* every listed file, cut to FILE_SIZE_LIMIT characters
CutFiles == [j \in 1..Len(FilesListed) |-> FirstChars(Flat(FileText(j)), FILE_SIZE_LIMIT)]

\* C13 as stated: the content of a root commit is the contents of its changed
\* files, each cut to FILE_SIZE_LIMIT characters, joined with a line break in
\* file-list order.
C13_AllFilesJoined ==
    (pc = "initial" /\ ~repo[1].has_parent) =>
        Flat(content) = JoinPieces(CutFiles, 1..Len(FilesListed), 1, TRUE)

\* C13, amended: the content of a root commit is the contents of those of its
\* changed files that pass the file filter and are not empty (an unreadable
\* file is empty), each cut to FILE_SIZE_LIMIT characters, joined with a line
\* break in file-list order; no file contributes more than FILE_SIZE_LIMIT
\* characters.
C13_IncludedFilesJoined ==
    (pc = "initial" /\ ~repo[1].has_parent) =>
        LET keep == { j \in 1..Len(FilesListed) :
                        should_include_file(FilesListed[j]) /\ CutFiles[j] # <<>> }
        IN  /\ Flat(content) = JoinPieces(CutFiles, keep, 1, TRUE)
            /\ \A j \in keep : Len(CutFiles[j]) <= FILE_SIZE_LIMIT

\* a root commit whose first file is longer than FILE_SIZE_LIMIT and is cut
\* at a line break, followed by a rejected file, an empty file and a file
\* that is kept whole
C13_Witness ==
    /\ pc = "initial"
    /\ fault = NoFault
    /\ repo = << RootBig >>
    /\ Len(Flat(FileText(1))) > FILE_SIZE_LIMIT
    /\ content = << LongLine, <<>>, DefB, <<>> >>

\* C14: the root-commit path is taken only for a commit without a parent and
\* the regular path only for a commit with one, whatever call fails.
C14_RootIffNoParent ==
    /\ pc = "initial" => ~repo[1].has_parent
    /\ pc = "regular" => repo[1].has_parent

\* the headers of the files of a diff that the filter accepts and that have
\* at least one added or removed line: the hunks of the diff
HunkHeaders(text) ==
    { h \in 1..Len(text) :
        /\ IsHeader(text[h])
        /\ \E k \in SpanLines(text) :
               /\ HeaderBefore(text, k) = h
               /\ (Marked(text[k], "+") \/ Marked(text[k], "-")) }

\* the documents built for the commit with this hash
UnitsOf(hash) ==
    { k \in 1..Len(documents) : documents[k].metadata.commit_hash = hash }

\* C15: build_documents emits one unit for each file of a commit's diff that
\* the filter accepts and that has surviving lines.
C15_UnitPerHunk ==
    (pc = "done" /\ fault = NoFault) =>
        \A c \in 1..Len(repo) :
            Cardinality(UnitsOf(repo[c].hash)) = Cardinality(HunkHeaders(repo[c].diff))

\* every changed file of the commit lies in a dependency-cache directory
FullyFiltered(commit) ==
    /\ commit.files # <<>>
    /\ \A j \in 1..Len(commit.files) :
           Contains(commit.files[j], <<"n", "o", "d", "e", "_", "m", "o", "d", "u", "l", "e", "s", "/">>)

RECURSIVE IncludedLines(_, _)
IncludedLines(text, k) ==
    IF k > Len(text) THEN <<>>
    ELSE (IF InIncludedSpan(text, k) THEN << text[k] >> ELSE <<>>)
             \o IncludedLines(text, k + 1)

\* C18: what the walk over a diff keeps is exactly the non-header lines of
\* the included files, in their order and with their '+' and '-' markers.
C18_HunksReproduceDiff ==
    outcome = "extracted" =>
        locals.filtered_lines = IncludedLines(diff_content, 1)

\* the fields every unit's metadata has to hold
RequiredMetadata == {"commit_hash", "commit_short_hash", "author", "date", "summary"}

\* the metadata holds the commit id, its first 8 characters, the author, the
\* timestamp and the summary
MetadataComplete(metadata) ==
    /\ RequiredMetadata \subseteq DOMAIN metadata
    /\ metadata.commit_short_hash = Prefix(metadata.commit_hash, ShortHashLength)

\* C17: every unit, whether build_documents returned it or index_repository
\* stored it, has the commit id, the short id (its first 8 characters), the
\* author, the timestamp and the summary in its metadata.
C17_MetadataComplete ==
    /\ \A k \in 1..Len(documents) : MetadataComplete(documents[k].metadata)
    /\ \A k \in 1..Len(store) : MetadataComplete(store[k].metadata)

\* C19: index_repository reads commits, stores documents or returns True
\* only after validate_repository has returned True on the same indexer.
C19_ValidationGatesIndexing ==
    (pc = "indexing" \/ store # <<>> \/ indexed = "True") => validated = "True"

\* C20: batch_insert_documents returns the number of documents of the batch
\* that are in the store.
C20_CountIsPersisted ==
    pc = "returned" => inserted = Len(store)

\* the position in the listing of the commit with this hash, 0 when none
PositionOf(hash) ==
    IF \E c \in 1..Len(repo) : repo[c].hash = hash
    THEN CHOOSE c \in 1..Len(repo) : repo[c].hash = hash
    ELSE 0

\* C21: the returned commits are a subsequence of the listing: each belongs
\* to a listed commit, they stand in listing order, no two share a hash, and
\* each carries the summary, the author 'name <email>' and the date the
\* backend reported for its hash.
C21_SubsequenceOfListing ==
    ExtractDone =>
        /\ \A k \in 1..Len(commits_data) : PositionOf(commits_data[k].hash) \in Listed
        /\ \A k, m \in 1..Len(commits_data) :
               k < m => PositionOf(commits_data[k].hash) < PositionOf(commits_data[m].hash)
        /\ \A k \in 1..Len(commits_data) :
               LET commit == repo[PositionOf(commits_data[k].hash)]
               IN  /\ commits_data[k].summary = commit.subject
                   /\ commits_data[k].author =
                          commit.author_name \o <<" <">> \o commit.author_email \o <<">">>
                   /\ commits_data[k].date = commit.date

\* the path is not one GitIndexer can open as a repository
Inaccessible == path \in {"missing", "file", ".git", "inside .git", "directory"}

C24_FiltersAgree ==
    /\ verdicts.CommitProcessor = verdicts.GitDiffParser
    /\ verdicts.GitDiffParser = verdicts.GitIndexer

\* C25: commits go through the whole pipeline strictly one after another:
\* when a backend call for commit i+1 starts, the analysis of commit i
\* (parse_structural_changes and the building of its unit) is complete
C25_StrictlySequential ==
    (pc = "extract" /\ i \in 2..Len(repo)) =>
        \A k \in 1..Len(commits_data) :
            /\ k <= Len(documents)
            /\ documents[k].metadata.commit_hash = commits_data[k].hash

\* the commit listed at position c has ended in Done: a unit was built for it
Done(c) == DocumentsOf(repo[c].hash) # {}

\* the commit listed at position c has ended in Skipped: extract_commits is
\* past it and did not return it
Skipped(c) ==
    /\ pc # "extract" \/ i > c
    /\ \A k \in 1..Len(commits_data) : commits_data[k].hash # repo[c].hash

\* C26: on a finite listing every commit eventually ends in exactly one of
\* Done (a unit was built) or Skipped (no unit); Skipped is entered only with
\* a blank content and a Skipped commit is never analysed; a commit whose
\* analysis falls back to the degraded pass still yields a unit.
C26_EveryCommitEnds ==
    /\ <>[](\A c \in Listed : Done(c) # Skipped(c))
    /\ [](\A c \in Listed :
              Skipped(c) => /\ IsBlank(extract_commit_content(repo[c], c, fault))
                            /\ ~Done(c))

\* the units build_documents can produce for a CommitData on its own: the
\* one of the structured pass (or of _empty_changes) and the one of the
\* degraded pass
UnitsAlone(commit_data) ==
    { create_document(commit_data, Changes(parse_structural_changes(commit_data.content, b).locals)) :
        b \in { c \in BOOLEAN :
                  parse_structural_changes(commit_data.content, c).outcome # "raised" } }

\* C27: no state is shared across commits: the unit built for a commit
\* depends only on its CommitData, whatever other commits are in the batch,
\* whatever their order and whatever the parser has parsed before; names and
\* counts of an earlier commit never show up in a later unit.
C27_NoSharedState ==
    \A k \in 1..Len(documents) :
        /\ k <= Len(commits_data)
        /\ documents[k] \in UnitsAlone(commits_data[k])

\* a run that built a unit with a modified file and counted lines, and after
\* it a unit with none
C27_Witness ==
    /\ pc = "done"
    /\ Len(documents) >= 2
    /\ documents[1].changes.modified_files # {}
    /\ documents[1].changes.lines_added > 0
    /\ documents[2].changes.modified_files = {}
    /\ documents[2].changes.lines_added = 0

\* a function, type or file collection of the change set is not empty
AnyCollection(changes) ==
    \/ changes.added_functions # {}
    \/ changes.removed_functions # {}
    \/ changes.modified_functions # {}
    \/ changes.added_classes # {}
    \/ changes.removed_classes # {}
    \/ changes.modified_files # {}

\* C28: in every change set parse_structural_changes returns, from the
\* structured or the degraded pass: counted lines or a function or type name
\* imply a modified file; every modified file is the path of a header line of
\* the text and is accepted by the file filter; and the document text has a
\* 'Summary:' line whenever a structural collection, modified_functions
\* included, is not empty.
C28_FilesAccountForChanges ==
    outcome \in {"empty", "full", "degraded"} =>
        LET changes == Changes(locals)
        IN  /\ ( \/ changes.lines_added + changes.lines_removed > 0
                 \/ changes.added_functions # {}
                 \/ changes.removed_functions # {}
                 \/ changes.modified_functions # {}
                 \/ changes.added_classes # {}
                 \/ changes.removed_classes # {} ) => changes.modified_files # {}
            /\ \A p \in changes.modified_files :
                   /\ should_include_file(p)
                   /\ \E l \in 1..Len(diff_content) : file_pattern(diff_content[l]) = p
            /\ AnyCollection(changes) =>
                   \E k \in 1..Len(format_semantic_content(changes)) :
                       format_semantic_content(changes)[k] = "Summary"

\* C29: extract_commits is all-or-nothing for an error that escapes the guard
\* of _extract_commit_content: when the progress callback raises while the
\* commit at position c is processed, extract_commits returns [], the commits
\* before c that were extracted are discarded, and nothing is raised.
C29_CallbackAllOrNothing ==
    (ExtractDone /\ fault.call = "progress_callback" /\ fault.commit \in Listed) =>
        /\ commits_data = <<>>
        /\ pc = "build"

\* the callback raised at the third commit after two commits with content had
\* been extracted, and extract_commits returned []
C29_Witness ==
    /\ ExtractDone
    /\ fault.call = "progress_callback"
    /\ fault.commit = 3
    /\ Len(repo) = 3
    /\ HasInk(extract_commit_content(repo[1], 1, fault))
    /\ HasInk(extract_commit_content(repo[2], 2, fault))
    /\ commits_data = <<>>

\* C30: indexing and querying resolve the same storage location for the same
\* repository: the directory index_repository writes the index to is the
\* directory load_existing_index reads from, so a query made after a
\* successful index_repository, which set its storage up, finds an index.
C30_SameStorageLocation ==
    /\ [](repo_path # None =>
              GitIndexer_get_storage_path(repo_path) = get_storage_path(repo_path))
    /\ [][( /\ indexed = "True"
            /\ GitIndexer_get_storage_path(repo_path) \in disk
            /\ loaded' # loaded ) => loaded' = "Index"]_vars

====
